---- MODULE Spec2Model ----
(***************************************************************************)
(* Model of the comment-embedded state and review-synchronisation engine   *)
(* of ai-pr-reviewer: GitHubCommenter and GitLabCommenter                  *)
(* (src/src/platforms/github/commenter.ts, .../gitlab/commenter.ts).       *)
(*                                                                         *)
(* The specifications share the variables:                                 *)
(*   Spec        the buffer / submitReview state machine of one commenter  *)
(*   SpecOk      the same with every platform call succeeding              *)
(*   SpecList    listComments / listReviewComments and their caches        *)
(*   SpecRange   getCommentsAtRange on top of listReviewComments           *)
(*   SpecLedger  addReviewedCommitId on comment bodies                     *)
(*   SpecCodec   the marker-delimited region functions on comment bodies   *)
(*   SpecHelpers getHighestReviewedCommitId, getTopLevelComment and        *)
(*               composeCommentChain                                       *)
(*   SpecChains  getCommentChainsWithinRange                               *)
(*   SpecWrites  comment, updateDescription, reviewCommentReply and        *)
(*               submitReview with failing platform calls                  *)
(*   SpecReads   the paginated reads, getAllCommitIds included             *)
(*   SpecThrottle the secondary-rate-limit handler of the GitHub client    *)
(*   SpecPlatform detectPlatform / createPlatform                          *)
(*   SpecContext the event classification of GitLabContext                 *)
(*   SpecReplace comment(message, tag, 'replace') calls in a row           *)
(*   SpecTopLevel the loop of getTopLevelComment, one iteration per step   *)
(*   SpecRetag   reviewCommentReply followed by buffering and submitReview *)
(*                                                                         *)
(* A string is a sequence of atoms; an atom is a piece of text that no     *)
(* marker of the wire format straddles ("<!--", "-->", a blank, a newline, *)
(* a word).  Indices are 0-based, as in JavaScript.                        *)
(***************************************************************************)
EXTENDS Integers, Sequences, FiniteSets, TLC

VARIABLES
    adapter,               \* "github" | "gitlab": which commenter class this instance is
    reviewCommentsBuffer,  \* this.reviewCommentsBuffer
    reviewCommentsCache,   \* this.reviewCommentsCache / this.discussionsCache, per MR number
    issueCommentsCache,    \* this.issueCommentsCache / this.notesCache, per MR number
    remote,                \* the platform: review comments, top-level comments, reviews of each MR
    frames,                \* activation records of running listComments / listReviewComments calls
    requests,              \* number of list requests the platform has received
    sub,                   \* activation record of the running submitReview call
    log,                   \* platform calls made by the current / last submitReview call, in order
    calls,                 \* number of list / submitReview calls started so far
    text                   \* SpecLedger: input, argument and output of the last text function applied

vars == <<adapter, reviewCommentsBuffer, reviewCommentsCache, issueCommentsCache,
          remote, frames, requests, sub, log, calls, text>>

(***************************************************************************)
(* Bounds of the model                                                     *)
(***************************************************************************)
MaxSegs == 3        \* segments a generated comment body is made of
MaxAppends == 2     \* text functions applied in a row in SpecLedger
MaxFullPages == 2   \* full pages of comments a merge request holds in SpecList
MaxCalls == 3       \* list calls made in SpecList
MaxOps == 3         \* bufferReviewComment and submitReview calls made in Spec
MaxLen == 3         \* length of the id lists and number of comments in SpecHelpers
MaxLine == 6        \* highest line a range query names in SpecRange
MaxWrites == 2      \* operations of the commenter called in SpecWrites
MaxRetries == 2     \* times one request is sent again after a secondary rate limit

(***************************************************************************)
(* JavaScript string primitives on atom sequences                          *)
(***************************************************************************)
Min(a, b) == IF a < b THEN a ELSE b
Max(a, b) == IF a > b THEN a ELSE b

\* String.prototype.indexOf: 0-based index of the first occurrence, or -1
IndexOf(s, t) ==
    LET hits == {i \in 0..(Len(s) - Len(t)) : SubSeq(s, i + 1, i + Len(t)) = t}
    IN  IF hits = {} THEN -1 ELSE CHOOSE i \in hits : \A j \in hits : i <= j

\* String.prototype.lastIndexOf: 0-based index of the last occurrence, or -1
LastIndexOf(s, t) ==
    LET hits == {i \in 0..(Len(s) - Len(t)) : SubSeq(s, i + 1, i + Len(t)) = t}
    IN  IF hits = {} THEN -1 ELSE CHOOSE i \in hits : \A j \in hits : i >= j

\* String.prototype.substring(a, b): arguments clamped to [0, length] and
\* swapped when a > b
Substring(s, a, b) ==
    LET ca == Min(Max(a, 0), Len(s))
        cb == Min(Max(b, 0), Len(s))
    IN  SubSeq(s, Min(ca, cb) + 1, Max(ca, cb))

\* String.prototype.substring(a)
SubstringFrom(s, a) == Substring(s, a, Len(s))

\* String.prototype.includes
Includes(s, t) == IndexOf(s, t) >= 0

(***************************************************************************)
(* Marker strings                                                          *)
(***************************************************************************)
NL == <<"\n">>
COMMIT_ID_START_TAG == <<"<!--", " ", "commit_ids_reviewed_start", " ", "-->">>
COMMIT_ID_END_TAG == <<"<!--", " ", "commit_ids_reviewed_end", " ", "-->">>

COMMENT_GREETING == <<"CodeRabbit">>
COMMENT_TAG == <<"<!--", " ", "This is an auto-generated comment by OSS CodeRabbit", " ", "-->">>
COMMENT_REPLY_TAG == <<"<!--", " ", "This is an auto-generated reply by OSS CodeRabbit", " ", "-->">>

\* the template literal `<!-- ${commitId} -->`
CommitIdEntry(commitId) == <<"<!--", " ">> \o commitId \o <<" ", "-->">>

(***************************************************************************)
(* addReviewedCommitId                                                     *)
(***************************************************************************)
\* (mutant of LedgerInsert) the entry put right after the start marker
LedgerInsertAtStart(commentBody, start, end, entry) ==
    Substring(commentBody, 0, start + Len(COMMIT_ID_START_TAG))
        \o entry \o NL
        \o Substring(commentBody, start + Len(COMMIT_ID_START_TAG), end)
        \o SubstringFrom(commentBody, end)

\* (mutant of LedgerInsert) the entry replaces what the region held
LedgerReplace(commentBody, start, end, entry) ==
    Substring(commentBody, 0, start + Len(COMMIT_ID_START_TAG))
        \o entry \o NL \o SubstringFrom(commentBody, end)

\* where the new entry goes when both markers are found: the code re-emits
\* the text between the markers and puts the entry after it
LedgerInsert(commentBody, start, end, entry) ==
    LET ids == Substring(commentBody, start + Len(COMMIT_ID_START_TAG), end)
    IN  Substring(commentBody, 0, start + Len(COMMIT_ID_START_TAG))
            \o ids \o entry \o NL \o SubstringFrom(commentBody, end)

addReviewedCommitId(commentBody, commitId) ==
    LET start == IndexOf(commentBody, COMMIT_ID_START_TAG)
        end == IndexOf(commentBody, COMMIT_ID_END_TAG)
    IN  IF start = -1 \/ end = -1
        THEN commentBody \o NL \o COMMIT_ID_START_TAG \o NL
                 \o CommitIdEntry(commitId) \o NL \o COMMIT_ID_END_TAG
        ELSE LedgerInsert(commentBody, start, end, CommitIdEntry(commitId))

(***************************************************************************)
(* SpecLedger: the text functions applied to generated comment bodies      *)
(***************************************************************************)
CommitIds == {<<"c1">>, <<"c2">>}

\* the pieces a comment body is generated from
Segments == {<<"x">>, <<"y">>, NL, COMMIT_ID_START_TAG, COMMIT_ID_END_TAG,
             CommitIdEntry(<<"c1">>), CommitIdEntry(<<"c2">>)}

RECURSIVE Concat(_)
Concat(segs) == IF segs = <<>> THEN <<>> ELSE Head(segs) \o Concat(Tail(segs))

Bodies == {Concat(segs) : segs \in UNION {[1..n -> Segments] : n \in 0..MaxSegs}}

NoText == [op |-> "none", body |-> <<>>, arg |-> <<>>, out |-> <<>>, n |-> 0]

(***************************************************************************)
(* The platform and the comment caches                                     *)
(***************************************************************************)
MRs == {1, 2}                   \* merge request numbers
Kinds == {"issue", "review"}    \* listComments | listReviewComments
Callers == {1, 2}               \* concurrently running list calls
\* a slot of a Record<number, T[]>: never assigned (undefined), or an array
None == [set |-> FALSE, list |-> <<>>]
Entry(list) == [set |-> TRUE, list |-> list]

PER_PAGE == 100

\* what the platform holds for each merge request
NoRemote ==
    [reviewComments |-> [mr \in MRs |-> <<>>],
     issueComments |-> [mr \in MRs |-> <<>>],
     pending |-> [mr \in MRs |-> None],
     reviews |-> [mr \in MRs |-> <<>>],
     description |-> [mr \in MRs |-> <<>>],
     commits |-> [mr \in MRs |-> <<>>],
     nextId |-> 1]

NoCache == [mr \in MRs |-> None]

\* submitReview not running: its parameters and locals
IdleSub ==
    [pc |-> "idle", mr |-> 0, commitId |-> "", statusMsg |-> <<>>, i |-> 0, j |-> 0,
     del |-> <<>>, phase |-> 0, baseSha |-> "", buf |-> <<>>]

IdleFrame ==
    [pc |-> "idle", kind |-> "issue", mr |-> 0, page |-> 0, all |-> <<>>,
     result |-> <<>>, hit |-> FALSE, failed |-> FALSE, stored |-> FALSE,
     reqs |-> 0]

ListIdle ==
    /\ frames = [c \in Callers |-> IdleFrame]
    /\ requests = 0

SubmitIdle ==
    /\ adapter = "github"
    /\ reviewCommentsBuffer = <<>>
    /\ reviewCommentsCache = NoCache
    /\ issueCommentsCache = NoCache
    /\ remote = NoRemote
    /\ sub = IdleSub
    /\ log = <<>>
    /\ calls = 0

InitLedger ==
    /\ text \in {[NoText EXCEPT !.out = b] : b \in Bodies}
    /\ ListIdle
    /\ SubmitIdle

\* one call of addReviewedCommitId on the body the previous call produced
AddReviewedCommitId(commitId) ==
    /\ text.n < MaxAppends
    /\ text' = [op |-> "addReviewedCommitId", body |-> text.out, arg |-> commitId,
                out |-> addReviewedCommitId(text.out, commitId), n |-> text.n + 1]
    /\ UNCHANGED <<adapter, reviewCommentsBuffer, reviewCommentsCache, issueCommentsCache,
                   remote, frames, requests, sub, log, calls>>

NextLedger == \E commitId \in CommitIds : AddReviewedCommitId(commitId)

SpecLedger == InitLedger /\ [][NextLedger]_vars

(***************************************************************************)
(* Properties of addReviewedCommitId                                       *)
(***************************************************************************)
LedgerStart(body) == IndexOf(body, COMMIT_ID_START_TAG)
LedgerEnd(body) == IndexOf(body, COMMIT_ID_END_TAG)
LedgerAbsent(body) == LedgerStart(body) = -1 \/ LedgerEnd(body) = -1
\* the first start marker is followed by the first end marker
LedgerPresent(body) ==
    /\ LedgerStart(body) >= 0
    /\ LedgerEnd(body) >= LedgerStart(body) + Len(COMMIT_ID_START_TAG)

FreshLedger(commitId) ==
    NL \o COMMIT_ID_START_TAG \o NL \o CommitIdEntry(commitId) \o NL \o COMMIT_ID_END_TAG

AfterAdd == text.op = "addReviewedCommitId"

\* C10 as stated: with the ledger region absent the result is the body
\* followed by a fresh region holding the one entry; with the region present
\* the new entry sits immediately after the start marker, before every
\* existing entry, and everything else is unchanged.
C10_InsertedAfterStartMarker ==
    AfterAdd =>
        LET afterStart == LedgerStart(text.body) + Len(COMMIT_ID_START_TAG)
            entry == CommitIdEntry(text.arg)
        IN  /\ LedgerAbsent(text.body) => text.out = text.body \o FreshLedger(text.arg)
            /\ LedgerPresent(text.body) =>
                   \E ins \in {entry, entry \o NL, NL \o entry, NL \o entry \o NL} :
                       text.out = Substring(text.body, 0, afterStart) \o ins
                                      \o SubstringFrom(text.body, afterStart)

\* C10 amended: with either ledger marker missing the result is the body
\* followed by a fresh region holding the one entry; with the first start
\* marker followed by the first end marker the new entry (and a newline) is
\* inserted immediately before that end marker, after every existing entry,
\* and the text before and from the end marker on is unchanged.
C10_InsertedBeforeEndMarker ==
    AfterAdd =>
        /\ LedgerAbsent(text.body) => text.out = text.body \o FreshLedger(text.arg)
        /\ LedgerPresent(text.body) =>
               text.out = Substring(text.body, 0, LedgerEnd(text.body))
                              \o CommitIdEntry(text.arg) \o NL
                              \o SubstringFrom(text.body, LedgerEnd(text.body))

\* an entry is added to a region that already holds an entry for another id
C10_Witness ==
    /\ AfterAdd
    /\ LedgerPresent(text.body)
    /\ text.arg = <<"c2">>
    /\ Includes(Substring(text.body, LedgerStart(text.body), LedgerEnd(text.body)),
                CommitIdEntry(<<"c1">>))
    /\ Includes(text.out, CommitIdEntry(<<"c1">>) \o CommitIdEntry(<<"c2">>) \o NL
                              \o COMMIT_ID_END_TAG)

(***************************************************************************)
(* getReviewedCommitIds / getReviewedCommitIdsBlock                        *)
(***************************************************************************)
\* String.prototype.split(sep): the pieces between the occurrences of sep
RECURSIVE Split(_, _)
Split(s, sep) ==
    LET at == IndexOf(s, sep)
    IN  IF at = -1 THEN <<s>>
        ELSE <<Substring(s, 0, at)>> \o Split(SubstringFrom(s, at + Len(sep)), sep)

\* String.prototype.replace(t, ''): the first occurrence of t removed
RemoveFirst(s, t) ==
    LET at == IndexOf(s, t)
    IN  IF at = -1 THEN s ELSE Substring(s, 0, at) \o SubstringFrom(s, at + Len(t))

WhiteSpace == {" ", "\n"}

\* String.prototype.trim
RECURSIVE TrimStart(_)
TrimStart(s) == IF s # <<>> /\ Head(s) \in WhiteSpace THEN TrimStart(Tail(s)) ELSE s
RECURSIVE TrimEnd(_)
TrimEnd(s) ==
    IF s # <<>> /\ s[Len(s)] \in WhiteSpace THEN TrimEnd(SubSeq(s, 1, Len(s) - 1)) ELSE s
Trim(s) == TrimEnd(TrimStart(s))

\* `id.replace('-->', '').trim()`
IdOfPiece(piece) == Trim(RemoveFirst(piece, <<"-->">>))

getReviewedCommitIds(commentBody) ==
    LET start == IndexOf(commentBody, COMMIT_ID_START_TAG)
        end == IndexOf(commentBody, COMMIT_ID_END_TAG)
        ids == Substring(commentBody, start + Len(COMMIT_ID_START_TAG), end)
        pieces == Split(ids, <<"<!--">>)
        mapped == [k \in 1..Len(pieces) |-> IdOfPiece(pieces[k])]
        NonEmpty(id) == id # <<>>
    IN  IF start = -1 \/ end = -1 THEN <<>> ELSE SelectSeq(mapped, NonEmpty)

getReviewedCommitIdsBlock(commentBody) ==
    LET start == IndexOf(commentBody, COMMIT_ID_START_TAG)
        end == IndexOf(commentBody, COMMIT_ID_END_TAG)
    IN  IF start = -1 \/ end = -1 THEN <<>>
        ELSE Substring(commentBody, start, end + Len(COMMIT_ID_END_TAG))

(***************************************************************************)
(* Properties of addReviewedCommitId followed by getReviewedCommitIds      *)
(***************************************************************************)
\* number of occurrences of t in s
Occurrences(s, t) ==
    Cardinality({i \in 0..(Len(s) - Len(t)) : SubSeq(s, i + 1, i + Len(t)) = t})

\* number of elements of list equal to x
Count(list, x) == Cardinality({k \in 1..Len(list) : list[k] = x})

\* a second addReviewedCommitId of the id the previous call added
SecondAdd ==
    /\ AfterAdd
    /\ text'.op = "addReviewedCommitId"
    /\ text'.body = text.out
    /\ text'.arg = text.arg

C11_Step ==
    SecondAdd =>
        /\ Occurrences(text'.out, CommitIdEntry(text.arg)) >= 2
        /\ Count(getReviewedCommitIds(text'.out), text.arg)
               = Count(getReviewedCommitIds(text.out), text.arg) + 1

\* C11: for every body and commit id, adding the id twice gives a text that
\* holds the id token twice, and getReviewedCommitIds of it lists the id one
\* more time than getReviewedCommitIds after the first addition.
C11_NoDeduplication == [][C11_Step]_vars

(***************************************************************************)
(* Marker-delimited regions: getContentWithinTags, removeContentWithinTags, *)
(* getDescription, updateDescription, addInProgressStatus,                 *)
(* removeInProgressStatus                                                  *)
(***************************************************************************)
IN_PROGRESS_START_TAG ==
    <<"<!--", " ", "This is an auto-generated comment: summarize review in progress by OSS CodeRabbit",
      " ", "-->">>
IN_PROGRESS_END_TAG ==
    <<"<!--", " ", "end of auto-generated comment: summarize review in progress by OSS CodeRabbit",
      " ", "-->">>
DESCRIPTION_START_TAG ==
    <<"<!--", " ", "This is an auto-generated comment: release notes by OSS CodeRabbit", " ", "-->">>
DESCRIPTION_END_TAG ==
    <<"<!--", " ", "end of auto-generated comment: release notes by OSS CodeRabbit", " ", "-->">>

\* String.prototype.slice(a, b): a negative argument counts from the end,
\* both are clamped to [0, length], and a >= b gives the empty string
Slice(s, a, b) ==
    LET ca == IF a < 0 THEN Max(Len(s) + a, 0) ELSE Min(a, Len(s))
        cb == IF b < 0 THEN Max(Len(s) + b, 0) ELSE Min(b, Len(s))
    IN  IF ca >= cb THEN <<>> ELSE SubSeq(s, ca + 1, cb)

\* String.prototype.slice(a)
SliceFrom(s, a) == Slice(s, a, Len(s))

getContentWithinTags(content, startTag, endTag) ==
    LET start == IndexOf(content, startTag)
        end == IndexOf(content, endTag)
    IN  IF start >= 0 /\ end >= 0 THEN Slice(content, start + Len(startTag), end) ELSE <<>>

removeContentWithinTags(content, startTag, endTag) ==
    LET start == IndexOf(content, startTag)
        end == LastIndexOf(content, endTag)
    IN  IF start >= 0 /\ end >= 0
        THEN Slice(content, 0, start) \o SliceFrom(content, end + Len(endTag))
        ELSE content

getDescription(description) ==
    removeContentWithinTags(description, DESCRIPTION_START_TAG, DESCRIPTION_END_TAG)

\* updateDescription: the body written back for the body read and the message
newDescription(body, message) ==
    LET description == getDescription(body)
        messageClean == removeContentWithinTags(message, DESCRIPTION_START_TAG,
                                                DESCRIPTION_END_TAG)
    IN  description \o NL \o DESCRIPTION_START_TAG \o NL \o messageClean \o NL
            \o DESCRIPTION_END_TAG

\* the fixed line of the banner; the two adapters word it differently
ReviewingLine ==
    IF adapter = "github" THEN <<"Currently reviewing new changes in this PR...">>
    ELSE <<"Currently reviewing new changes in this MR...">>

addInProgressStatus(commentBody, statusMsg) ==
    LET start == IndexOf(commentBody, IN_PROGRESS_START_TAG)
        end == IndexOf(commentBody, IN_PROGRESS_END_TAG)
    IN  IF start = -1 \/ end = -1
        THEN IN_PROGRESS_START_TAG \o NL \o NL \o ReviewingLine \o NL \o NL
                 \o statusMsg \o NL \o NL \o IN_PROGRESS_END_TAG \o NL \o NL
                 \o <<"---">> \o NL \o NL \o commentBody
        ELSE commentBody

\* (mutant of removeInProgressStatus) the end marker is not looked for
removeFromStartMarker(commentBody) ==
    LET start == IndexOf(commentBody, IN_PROGRESS_START_TAG)
    IN  IF start # -1
        THEN Substring(commentBody, 0, start)
                 \o SubstringFrom(commentBody, start + Len(IN_PROGRESS_START_TAG))
        ELSE commentBody

removeInProgressStatus(commentBody) ==
    LET start == IndexOf(commentBody, IN_PROGRESS_START_TAG)
        end == IndexOf(commentBody, IN_PROGRESS_END_TAG)
    IN  IF start # -1 /\ end # -1
        THEN Substring(commentBody, 0, start)
                 \o SubstringFrom(commentBody, end + Len(IN_PROGRESS_END_TAG))
        ELSE commentBody

(***************************************************************************)
(* SpecCodec: the region functions applied to generated bodies             *)
(***************************************************************************)
TagPairs ==
    {<<DESCRIPTION_START_TAG, DESCRIPTION_END_TAG>>,
     <<IN_PROGRESS_START_TAG, IN_PROGRESS_END_TAG>>,
     <<COMMIT_ID_START_TAG, COMMIT_ID_END_TAG>>}

\* the pieces a body holding markers of one pair is generated from
PairSegments(pair) ==
    {<<"x">>, pair[1], pair[2],
     IF pair[1] = COMMIT_ID_START_TAG THEN CommitIdEntry(<<"c1">>) ELSE NL}

CodecBodies ==
    UNION {{Concat(segs) : segs \in UNION {[1..n -> PairSegments(pair)] : n \in 0..MaxSegs}}
              : pair \in TagPairs}

\* release-notes messages handed to updateDescription
ReleaseNotes == {<<"notes">>, DESCRIPTION_END_TAG \o <<"notes">>}
BannerMsgs == {<<"status">>}

\* the functions that return a body another function can be applied to
BodyOps == {"none", "removeContentWithinTags", "getDescription", "updateDescription",
            "addInProgressStatus", "removeInProgressStatus"}

InitCodec ==
    /\ adapter \in {"github", "gitlab"}
    /\ text \in {[NoText EXCEPT !.out = b] : b \in CodecBodies}
    /\ ListIdle
    /\ reviewCommentsBuffer = <<>>
    /\ reviewCommentsCache = NoCache
    /\ issueCommentsCache = NoCache
    /\ remote = NoRemote
    /\ sub = IdleSub
    /\ log = <<>>
    /\ calls = 0

\* one function applied to the body the previous one returned
Apply(op, arg, out) ==
    /\ text.n < MaxAppends
    /\ text.op \in BodyOps
    /\ text' = [op |-> op, body |-> text.out, arg |-> arg, out |-> out, n |-> text.n + 1]
    /\ UNCHANGED <<adapter, reviewCommentsBuffer, reviewCommentsCache, issueCommentsCache,
                   remote, frames, requests, sub, log, calls>>

GetContentWithinTags(startTag, endTag) ==
    Apply("getContentWithinTags", <<startTag, endTag>>,
          getContentWithinTags(text.out, startTag, endTag))

RemoveContentWithinTags(startTag, endTag) ==
    Apply("removeContentWithinTags", <<startTag, endTag>>,
          removeContentWithinTags(text.out, startTag, endTag))

GetDescription == Apply("getDescription", <<>>, getDescription(text.out))

\* updateDescription: the description is read, composed and written back;
\* when the read or the write fails the description stays as it was
UpdateDescription(message, ok) ==
    Apply("updateDescription", message,
          IF ok THEN newDescription(text.out, message) ELSE text.out)

GetReviewedCommitIds == Apply("getReviewedCommitIds", <<>>, getReviewedCommitIds(text.out))

GetReviewedCommitIdsBlock ==
    Apply("getReviewedCommitIdsBlock", <<>>, getReviewedCommitIdsBlock(text.out))

AddInProgressStatus(statusMsg) ==
    Apply("addInProgressStatus", statusMsg, addInProgressStatus(text.out, statusMsg))

RemoveInProgressStatus == Apply("removeInProgressStatus", <<>>, removeInProgressStatus(text.out))

NextCodec ==
    \/ \E pair \in TagPairs : GetContentWithinTags(pair[1], pair[2])
    \/ \E pair \in TagPairs : RemoveContentWithinTags(pair[1], pair[2])
    \/ GetDescription
    \/ \E message \in ReleaseNotes, ok \in BOOLEAN : UpdateDescription(message, ok)
    \/ GetReviewedCommitIds
    \/ GetReviewedCommitIdsBlock
    \/ \E statusMsg \in BannerMsgs : AddInProgressStatus(statusMsg)
    \/ RemoveInProgressStatus

SpecCodec == InitCodec /\ [][NextCodec]_vars

(***************************************************************************)
(* Properties of the region functions                                      *)
(***************************************************************************)
\* the 0-based positions at which t occurs in s
Positions(s, t) == {i \in 0..(Len(s) - Len(t)) : SubSeq(s, i + 1, i + Len(t)) = t}

Absent(s, t) == Positions(s, t) = {}

\* C13: getContentWithinTags returns the text strictly between the first
\* start tag and the first end tag that lies after that start tag, also when
\* an end tag occurs before the first start tag; it returns the empty string
\* when either tag is absent.
C13_ContentUpToNextEndTag ==
    text.op = "getContentWithinTags" =>
        LET startTag == text.arg[1]
            endTag == text.arg[2]
            from == IndexOf(text.body, startTag) + Len(startTag)
            after == {i \in Positions(text.body, endTag) : i >= from}
        IN  /\ (Absent(text.body, startTag) \/ Absent(text.body, endTag)) => text.out = <<>>
            /\ (~Absent(text.body, startTag) /\ after # {}) =>
                   text.out = SubSeq(text.body, from + 1,
                                     CHOOSE i \in after : \A j \in after : i <= j)

\* C14: removeContentWithinTags returns the text without everything from the
\* first start tag through the end of the last end tag, nothing else changed:
\* the result is never longer than the text, also when the last end tag
\* precedes the first start tag; with either tag absent the text is returned
\* unchanged.
C14_RemovesFirstStartThroughLastEnd ==
    text.op = "removeContentWithinTags" =>
        LET startTag == text.arg[1]
            endTag == text.arg[2]
            start == IndexOf(text.body, startTag)
            end == LastIndexOf(text.body, endTag)
        IN  /\ (Absent(text.body, startTag) \/ Absent(text.body, endTag)) =>
                   text.out = text.body
            /\ Len(text.out) <= Len(text.body)
            /\ (start >= 0 /\ end >= start) =>
                   text.out = SubSeq(text.body, 1, start)
                                  \o SubSeq(text.body, end + Len(endTag) + 1, Len(text.body))

\* updateDescription composed a new description
Composed == text.op = "updateDescription" /\ text.out # text.body

C15_Step ==
    (/\ Composed
     /\ Absent(text.body, DESCRIPTION_START_TAG)
     /\ Absent(text.body, DESCRIPTION_END_TAG)
     /\ text'.op = "getDescription"
     /\ text'.body = text.out)
        => text'.out = text.body

\* C15: for a text t holding neither description marker and every payload,
\* stripping the description region from the text updateDescription composes
\* from t and the payload yields exactly t.
C15_StripInvertsUpdateDescription == [][C15_Step]_vars

C16_Step ==
    (/\ text.op = "addInProgressStatus"
     /\ Absent(text.body, IN_PROGRESS_START_TAG)
     /\ Absent(text.body, IN_PROGRESS_END_TAG)
     /\ text'.op = "removeInProgressStatus"
     /\ text'.body = text.out)
        => text'.out = text.body

C16_InsertIfAbsent ==
    (/\ text.op = "addInProgressStatus"
     /\ ~Absent(text.body, IN_PROGRESS_START_TAG)
     /\ ~Absent(text.body, IN_PROGRESS_END_TAG))
        => text.out = text.body

\* C16: for a body holding neither banner marker, removeInProgressStatus of
\* addInProgressStatus(body, msg) is the body; and addInProgressStatus of a
\* body that holds both banner markers returns the body unchanged.
C16_BannerRemovalIsInverse == []C16_InsertIfAbsent /\ [][C16_Step]_vars

\* a marker pair of which at least one marker is missing in s
Unpaired(s, pair) == Absent(s, pair[1]) \/ Absent(s, pair[2])

\* C17: a body in which a marker pair is absent or unpaired reads as "no
\* value": getContentWithinTags returns "", getReviewedCommitIds the empty
\* list, getReviewedCommitIdsBlock "", and removeContentWithinTags and
\* removeInProgressStatus return the body unchanged.
C17_UnpairedMarkersReadAsNoValue ==
    /\ (text.op = "getContentWithinTags" /\ Unpaired(text.body, text.arg)) => text.out = <<>>
    /\ (text.op = "removeContentWithinTags" /\ Unpaired(text.body, text.arg)) =>
           text.out = text.body
    /\ (/\ text.op \in {"getReviewedCommitIds", "getReviewedCommitIdsBlock"}
        /\ Unpaired(text.body, <<COMMIT_ID_START_TAG, COMMIT_ID_END_TAG>>)) => text.out = <<>>
    /\ (/\ text.op = "removeInProgressStatus"
        /\ Unpaired(text.body, <<IN_PROGRESS_START_TAG, IN_PROGRESS_END_TAG>>)) =>
           text.out = text.body

\* removeInProgressStatus was applied to a body that holds the start marker
\* of the banner and text after it, but no end marker
C17_Witness ==
    /\ text.op = "removeInProgressStatus"
    /\ ~Absent(text.body, IN_PROGRESS_START_TAG)
    /\ Absent(text.body, IN_PROGRESS_END_TAG)
    /\ IndexOf(text.body, IN_PROGRESS_START_TAG) + Len(IN_PROGRESS_START_TAG) < Len(text.body)
    /\ text.out = text.body

(***************************************************************************)
(* getHighestReviewedCommitId, getTopLevelComment                          *)
(***************************************************************************)
\* (mutant of HighestFrom) the list is scanned from its first element
LowestFrom(commitIds, reviewedCommitIds, i) ==
    LET hits == {k \in 1..Len(commitIds) :
                    \E r \in 1..Len(reviewedCommitIds) : reviewedCommitIds[r] = commitIds[k]}
    IN  IF hits = {} THEN <<>> ELSE commitIds[CHOOSE k \in hits : \A h \in hits : k <= h]

\* the loop `for (let i = commitIds.length - 1; i >= 0; i--)`, i 1-based here;
\* the empty string is <<>>
RECURSIVE HighestFrom(_, _, _)
HighestFrom(commitIds, reviewedCommitIds, i) ==
    IF i < 1 THEN <<>>
    ELSE IF \E r \in 1..Len(reviewedCommitIds) : reviewedCommitIds[r] = commitIds[i]
         THEN commitIds[i]
         ELSE HighestFrom(commitIds, reviewedCommitIds, i - 1)

getHighestReviewedCommitId(commitIds, reviewedCommitIds) ==
    HighestFrom(commitIds, reviewedCommitIds, Len(commitIds))

\* `reviewComments.find(cmt => cmt.id === id)`: the first match, or <<>> for undefined
Find(reviewComments, id) ==
    LET hits == {k \in 1..Len(reviewComments) : reviewComments[k].id = id}
    IN  IF hits = {} THEN <<>>
        ELSE reviewComments[CHOOSE k \in hits : \A h \in hits : k <= h]

\* (mutant of TopLevelFrom) one link is followed at most
ParentOrSelf(reviewComments, topLevelComment) ==
    IF topLevelComment.inReplyToId = 0
           \/ Find(reviewComments, topLevelComment.inReplyToId) = <<>>
    THEN topLevelComment
    ELSE Find(reviewComments, topLevelComment.inReplyToId)

\* the loop `while (topLevelComment.inReplyToId)`; an undefined inReplyToId is 0
RECURSIVE TopLevelFrom(_, _)
TopLevelFrom(reviewComments, topLevelComment) ==
    IF topLevelComment.inReplyToId = 0 THEN topLevelComment
    ELSE LET parentComment == Find(reviewComments, topLevelComment.inReplyToId)
         IN  IF parentComment # <<>>
             THEN TopLevelFrom(reviewComments, parentComment)
             ELSE topLevelComment

getTopLevelComment(reviewComments, comment) == TopLevelFrom(reviewComments, comment)

\* `${cmt.author.login}: ${cmt.body}`
ChainLine(cmt) == cmt.author.login \o <<": ">> \o cmt.body

\* Array.prototype.join(sep)
RECURSIVE Join(_, _)
Join(lines, sep) ==
    IF lines = <<>> THEN <<>>
    ELSE IF Len(lines) = 1 THEN lines[1]
    ELSE lines[1] \o sep \o Join(Tail(lines), sep)

CHAIN_SEPARATOR == <<"\n", "---", "\n">>

\* (mutant of RepliesTo) every comment that is a reply, to whichever comment
RepliesToAny(cmt, topLevelComment) == cmt.inReplyToId # 0

\* `cmt.inReplyToId === topLevelComment.id`
RepliesTo(cmt, topLevelComment) == cmt.inReplyToId = topLevelComment.id

composeCommentChain(reviewComments, topLevelComment) ==
    LET Test(cmt) == RepliesTo(cmt, topLevelComment)
        replies == SelectSeq(reviewComments, Test)
        conversationChain == [k \in 1..Len(replies) |-> ChainLine(replies[k])]
    IN  Join(<<ChainLine(topLevelComment)>> \o conversationChain, CHAIN_SEPARATOR)

(***************************************************************************)
(* SpecHelpers: the list functions applied to generated inputs             *)
(***************************************************************************)
ListIds == {<<"c1">>, <<"c2">>, <<"c3">>}
IdLists == UNION {[1..n -> ListIds] : n \in 0..MaxLen}

\* a review comment as far as the chain functions read it
ChainComment(id, inReplyToId) ==
    [body |-> <<"body", ToString(id)>>, id |-> id, inReplyToId |-> inReplyToId,
     author |-> [login |-> <<"author", ToString(id)>>]]

\* the threads of a merge request: comment k replies to an earlier comment or to none
Threads == {t \in [1..MaxLen -> 0..MaxLen] : \A k \in 1..MaxLen : t[k] < k}

\* the comments with an id in present, in fetch order
RECURSIVE Fetched(_, _, _)
Fetched(thread, present, k) ==
    IF k > MaxLen THEN <<>>
    ELSE (IF k \in present THEN <<ChainComment(k, thread[k])>> ELSE <<>>)
             \o Fetched(thread, present, k + 1)

InitHelpers ==
    /\ adapter \in {"github", "gitlab"}
    /\ text = NoText
    /\ ListIdle
    /\ reviewCommentsBuffer = <<>>
    /\ reviewCommentsCache = NoCache
    /\ issueCommentsCache = NoCache
    /\ remote = NoRemote
    /\ sub = IdleSub
    /\ log = <<>>
    /\ calls = 0

\* one call on a fresh commenter
Call(op, body, arg, out) ==
    /\ text.n = 0
    /\ text' = [op |-> op, body |-> body, arg |-> arg, out |-> out, n |-> 1]
    /\ UNCHANGED <<adapter, reviewCommentsBuffer, reviewCommentsCache, issueCommentsCache,
                   remote, frames, requests, sub, log, calls>>

GetHighestReviewedCommitId(commitIds, reviewedCommitIds) ==
    Call("getHighestReviewedCommitId", commitIds, reviewedCommitIds,
         getHighestReviewedCommitId(commitIds, reviewedCommitIds))

GetTopLevelComment(reviewComments, comment) ==
    Call("getTopLevelComment", reviewComments, comment,
         getTopLevelComment(reviewComments, comment))

ComposeCommentChain(reviewComments, topLevelComment) ==
    Call("composeCommentChain", reviewComments, topLevelComment,
         composeCommentChain(reviewComments, topLevelComment))

NextHelpers ==
    \/ \E commitIds \in IdLists, reviewedCommitIds \in IdLists :
           GetHighestReviewedCommitId(commitIds, reviewedCommitIds)
    \/ \E thread \in Threads, present \in SUBSET (1..MaxLen), k \in 1..MaxLen :
           GetTopLevelComment(Fetched(thread, present, 1), ChainComment(k, thread[k]))
    \/ \E thread \in Threads, present \in SUBSET (1..MaxLen), k \in 1..MaxLen :
           ComposeCommentChain(Fetched(thread, present, 1), ChainComment(k, thread[k]))

SpecHelpers == InitHelpers /\ [][NextHelpers]_vars

(***************************************************************************)
(* Properties of getHighestReviewedCommitId and getTopLevelComment         *)
(***************************************************************************)
Member(list, x) == \E k \in 1..Len(list) : list[k] = x

\* C12: getHighestReviewedCommitId returns the element of commitIds at the
\* greatest index that is a member of reviewedCommitIds, and the empty string
\* when no element is (also when either list is empty); the result is ""
\* or an id present in both lists.
C12_HighestMatchingFromEnd ==
    text.op = "getHighestReviewedCommitId" =>
        LET hits == {k \in 1..Len(text.body) : Member(text.arg, text.body[k])}
        IN  /\ hits = {} => text.out = <<>>
            /\ hits # {} => text.out = text.body[CHOOSE k \in hits : \A h \in hits : k >= h]
            /\ text.out = <<>> \/ (Member(text.body, text.out) /\ Member(text.arg, text.out))

\* ([c1,c2,c3], [c1,c3]) gives c3
C12_Witness ==
    /\ text.op = "getHighestReviewedCommitId"
    /\ text.body = <<<<"c1">>, <<"c2">>, <<"c3">>>>
    /\ text.arg = <<<<"c1">>, <<"c3">>>>
    /\ text.out = <<"c3">>

\* the comment has no inReplyToId, or its parent is not among the comments
Root(comments, c) ==
    \/ c.inReplyToId = 0
    \/ ~\E k \in 1..Len(comments) : comments[k].id = c.inReplyToId

\* ids is the set of ids of a chain of reply links from comment c through
\* comments, ending at comment last
IsChain(comments, c, ids, last) ==
    LET At(id) == IF id = c.id THEN c ELSE Find(comments, id)
    IN  /\ c.id \in ids
        /\ \A id \in ids : id <= c.id /\ At(id) # <<>>
        /\ \A id \in ids \ {c.id} : \E from \in ids : from > id /\ At(from).inReplyToId = id
        /\ \A id \in ids : At(id).inReplyToId \in ids \/ At(id) = last
        /\ last \in {At(id) : id \in ids}

\* no inReplyToId of c or of a comment names a comment that is missing
EveryLinkResolves(comments, c) ==
    \A x \in {c} \cup {comments[k] : k \in 1..Len(comments)} :
        Root(comments, x) => x.inReplyToId = 0

\* C20: getTopLevelComment follows the inReplyToId links from c and returns
\* the first comment reached that has no inReplyToId or whose parent is not
\* among the comments; with every link resolving, the result has no
\* inReplyToId.
C20_RootOfReplyChain ==
    text.op = "getTopLevelComment" =>
        /\ Root(text.body, text.out)
        /\ \E ids \in SUBSET (1..MaxLen) : IsChain(text.body, text.arg, ids, text.out)
        /\ EveryLinkResolves(text.body, text.arg) => text.out.inReplyToId = 0

\* two links were followed to a comment without inReplyToId
C20_Witness ==
    /\ text.op = "getTopLevelComment"
    /\ text.arg = ChainComment(3, 2)
    /\ Member(text.body, ChainComment(2, 1))
    /\ text.out = ChainComment(1, 0)

\* the lines of the chain text
ChainLines(chain) == Split(chain, CHAIN_SEPARATOR)

\* C21: composeCommentChain gives the line "{author}: {body}" of the root
\* first, then one such line for exactly the comments whose inReplyToId is
\* the root's id, in the order of comments, joined by the separator; a reply
\* to a reply is not included.
C21_RootThenDirectReplies ==
    text.op = "composeCommentChain" =>
        LET lines == ChainLines(text.out)
            direct == {k \in 1..Len(text.body) : text.body[k].inReplyToId = text.arg.id}
            \* the position among the direct replies of the k-th comment
            Rank(k) == Cardinality({h \in direct : h <= k})
        IN  /\ lines[1] = ChainLine(text.arg)
            /\ Len(lines) = 1 + Cardinality(direct)
            /\ \A k \in direct : lines[1 + Rank(k)] = ChainLine(text.body[k])

\* root 1 with the reply 2 and the reply 3 to that reply: the chain of 1 is
\* the line of 1 and the line of 2
C21_Witness ==
    /\ text.op = "composeCommentChain"
    /\ text.arg = ChainComment(1, 0)
    /\ text.body = <<ChainComment(1, 0), ChainComment(2, 1), ChainComment(3, 2)>>
    /\ text.out = ChainLine(ChainComment(1, 0)) \o CHAIN_SEPARATOR
                       \o ChainLine(ChainComment(2, 1))

(***************************************************************************)
(* listComments / listReviewComments                                       *)
(*                                                                         *)
(* A call runs from one await to the next without interleaving: ListStart  *)
(* is the code up to the first request, ListResume the code from a         *)
(* response (or a rejection) to the next request or to the return.         *)
(***************************************************************************)
CacheHitNonEmpty(entry) == entry.set /\ entry.list # <<>>

\* `if (this.issueCommentsCache[mrNumber])`: an array, even an empty one, is truthy
CacheHit(entry) == entry.set

\* page `page` of `per_page: 100` (GitHub); the whole list from `.all()` (GitLab)
ResponseItems(list, page) ==
    IF adapter = "github"
    THEN SubSeq(list, (page - 1) * PER_PAGE + 1, Min(page * PER_PAGE, Len(list)))
    ELSE list

\* GitLab skips system notes in listComments and notes without a diff
\* position in listReviewComments; GitHub keeps every item
Kept(kind, c) ==
    adapter = "gitlab" => (IF kind = "issue" THEN c.meta # "system" ELSE c.meta # "nopos")

\* GitLab: `startLine: undefined` for every diff note
Normalized(kind, c) ==
    IF adapter = "gitlab" /\ kind = "review" THEN [c EXCEPT !.startLine = 0] ELSE c

\* the items pushed onto allComments for one response
Mapped(kind, items) ==
    LET Keep(c) == Kept(kind, c)
        kept == SelectSeq(items, Keep)
    IN  [i \in 1..Len(kept) |-> Normalized(kind, kept[i])]

\* (mutant of MorePages) fetch until a page comes back empty
MorePagesUntilEmpty(items) == adapter = "github" /\ Len(items) > 0

\* `if (!comments || comments.length < 100) break`; GitLab makes one request
MorePages(items) == adapter = "github" /\ ~(Len(items) < PER_PAGE)

CacheValueLastPage(allComments, items) == items

\* `this.issueCommentsCache[mrNumber] = allComments`
CacheValue(allComments, items) == allComments

CacheOnErrorStores(entry, allComments) == Entry(allComments)

\* the catch block returns allComments and assigns nothing to the cache
CacheOnError(entry, allComments) == entry

CacheOf(kind) == IF kind = "issue" THEN issueCommentsCache ELSE reviewCommentsCache
RemoteList(kind, mr) ==
    IF kind = "issue" THEN remote.issueComments[mr] ELSE remote.reviewComments[mr]

\* the call up to its first await
ListStart(c, kind, mr) ==
    /\ frames[c].pc \in {"idle", "done"}
    /\ IF CacheHit(CacheOf(kind)[mr])
       THEN /\ frames' = [frames EXCEPT ![c] =
                     [IdleFrame EXCEPT !.pc = "done", !.kind = kind, !.mr = mr,
                                       !.result = CacheOf(kind)[mr].list, !.hit = TRUE]]
            /\ requests' = requests
       ELSE /\ frames' = [frames EXCEPT ![c] =
                     [IdleFrame EXCEPT !.pc = "await", !.kind = kind, !.mr = mr,
                                       !.page = 1, !.reqs = 1]]
            /\ requests' = requests + 1
    /\ UNCHANGED <<reviewCommentsCache, issueCommentsCache>>

\* the call from a response to its next await or to its return
ListResume(c, ok) ==
    LET f == frames[c]
        items == ResponseItems(RemoteList(f.kind, f.mr), f.page)
        allComments == f.all \o Mapped(f.kind, items)
    IN  /\ f.pc = "await"
        /\ IF ~ok
           THEN \* catch: `return allComments`
                /\ frames' = [frames EXCEPT ![c] =
                        [f EXCEPT !.pc = "done", !.result = f.all, !.failed = TRUE]]
                /\ issueCommentsCache' =
                       IF f.kind = "issue"
                       THEN [issueCommentsCache EXCEPT ![f.mr] = CacheOnError(@, f.all)]
                       ELSE issueCommentsCache
                /\ reviewCommentsCache' =
                       IF f.kind = "review"
                       THEN [reviewCommentsCache EXCEPT ![f.mr] = CacheOnError(@, f.all)]
                       ELSE reviewCommentsCache
                /\ UNCHANGED requests
           ELSE IF MorePages(items)
           THEN /\ frames' = [frames EXCEPT ![c] =
                        [f EXCEPT !.all = allComments, !.page = f.page + 1,
                                  !.reqs = f.reqs + 1]]
                /\ requests' = requests + 1
                /\ UNCHANGED <<reviewCommentsCache, issueCommentsCache>>
           ELSE /\ frames' = [frames EXCEPT ![c] =
                        [f EXCEPT !.pc = "done", !.all = allComments,
                                  !.result = allComments, !.stored = TRUE]]
                /\ IF f.kind = "issue"
                   THEN /\ issueCommentsCache' =
                               [issueCommentsCache EXCEPT ![f.mr] =
                                   Entry(CacheValue(allComments, items))]
                        /\ UNCHANGED reviewCommentsCache
                   ELSE /\ reviewCommentsCache' =
                               [reviewCommentsCache EXCEPT ![f.mr] =
                                   Entry(CacheValue(allComments, items))]
                        /\ UNCHANGED issueCommentsCache
                /\ UNCHANGED requests

(***************************************************************************)
(* SpecList: list calls of two callers on one commenter instance           *)
(***************************************************************************)
\* a comment as the platform returns it
RawComment(id, path, startLine, line, body, meta) ==
    [id |-> id, path |-> path, startLine |-> startLine, line |-> line,
     body |-> body, meta |-> meta,
     \* not platform data: the exact range the comment was written for
     span |-> <<IF startLine = 0 THEN line ELSE startLine, line>>]

\* the n comments of merge request mr; on GitLab the second one is a system
\* note (top-level) or a note without position (discussion)
Generated(kind, mr, n) ==
    [i \in 1..n |->
        RawComment(1000 * mr + i, IF kind = "review" THEN "a" ELSE "", 0,
                   IF kind = "review" THEN 1 ELSE 0, <<"x">>,
                   IF i # 2 THEN "" ELSE IF kind = "issue" THEN "system" ELSE "nopos")]

Sizes == UNION {{k * PER_PAGE, k * PER_PAGE + 1} : k \in 0..MaxFullPages}

InitList ==
    /\ adapter \in {"github", "gitlab"}
    /\ \E n \in Sizes, m \in {2} :
           remote = [NoRemote EXCEPT
                        !.reviewComments = [mr \in MRs |->
                            Generated("review", mr, IF mr = 1 THEN n ELSE m)],
                        !.issueComments = [mr \in MRs |->
                            Generated("issue", mr, IF mr = 1 THEN n ELSE m)]]
    /\ reviewCommentsCache = NoCache
    /\ issueCommentsCache = NoCache
    /\ frames = [c \in Callers |-> IdleFrame]
    /\ requests = 0
    /\ reviewCommentsBuffer = <<>>
    /\ sub = IdleSub
    /\ log = <<>>
    /\ calls = 0
    /\ text = NoText

ListCall(c, kind, mr) ==
    /\ calls < MaxCalls
    /\ ListStart(c, kind, mr)
    /\ calls' = calls + 1
    /\ UNCHANGED <<adapter, reviewCommentsBuffer, remote, sub, log, text>>

ListResponse(c, ok) ==
    /\ ListResume(c, ok)
    /\ UNCHANGED <<adapter, reviewCommentsBuffer, remote, sub, log, calls, text>>

NextList ==
    \/ \E c \in Callers, kind \in Kinds, mr \in MRs : ListCall(c, kind, mr)
    \/ \E c \in Callers, ok \in BOOLEAN : ListResponse(c, ok)

SpecList == InitList /\ [][NextList]_vars

(***************************************************************************)
(* Properties of the cached list calls                                     *)
(***************************************************************************)
\* caller c starts a call in this step (a call served from the cache may
\* leave the caller's record as the previous such call left it)
Started(c) ==
    /\ calls' = calls + 1
    /\ frames[c].pc \in {"idle", "done"}
    /\ \/ frames'[c] # frames[c]
       \/ frames' = frames /\ frames[c].hit
\* caller c's call returns in this step after a failed fetch
FailedNow(c) == frames[c].pc = "await" /\ frames'[c].pc = "done" /\ frames'[c].failed
\* caller c's call returns in this step after fetching the last page
CompletedNow(c) == frames[c].pc = "await" /\ frames'[c].pc = "done" /\ ~frames'[c].failed

\* what a complete fetch of the list yields
FullList(kind, mr) == Mapped(kind, RemoteList(kind, mr))
\* what the first k requests of a fetch yield
FirstPages(kind, mr, k) ==
    IF adapter = "github"
    THEN Mapped(kind, SubSeq(RemoteList(kind, mr), 1,
                             Min(k * PER_PAGE, Len(RemoteList(kind, mr)))))
    ELSE <<>>

C7_Step ==
    \A c \in Callers, kind \in Kinds, mr \in MRs :
        /\ (FailedNow(c) /\ frames[c].kind = kind /\ frames[c].mr = mr) =>
               /\ frames'[c].result = FirstPages(kind, mr, frames[c].reqs - 1)
               /\ issueCommentsCache' = issueCommentsCache
               /\ reviewCommentsCache' = reviewCommentsCache
        /\ (Started(c) /\ frames'[c].kind = kind /\ frames'[c].mr = mr
               /\ CacheOf(kind)[mr] = None) =>
               /\ frames'[c].pc = "await"
               /\ frames'[c].page = 1
               /\ frames'[c].all = <<>>
               /\ requests' = requests + 1

\* C7: a call whose page fetch fails returns exactly the items of the pages
\* fetched before the failure, returns normally, and leaves both caches as
\* they were; a call that finds no cache entry for its merge request starts
\* the fetch at page 1 with nothing accumulated.
C7_PartialResultNotMemoized == [][C7_Step]_vars

\* a fetch failed on its third page: two pages returned, nothing memoized
C7_Witness ==
    \E c \in Callers :
        /\ frames[c].pc = "done"
        /\ frames[c].failed
        /\ frames[c].reqs = 3
        /\ Len(frames[c].result) = 2 * PER_PAGE
        /\ CacheOf(frames[c].kind)[frames[c].mr] = None

C8_Step ==
    \A c \in Callers, kind \in Kinds, mr \in MRs :
        /\ (CompletedNow(c) /\ frames[c].kind = kind /\ frames[c].mr = mr) =>
               /\ CacheOf(kind)[mr]' = Entry(frames'[c].result)
               /\ frames'[c].result = FullList(kind, mr)
        /\ (Started(c) /\ frames'[c].kind = kind /\ frames'[c].mr = mr) =>
               IF CacheOf(kind)[mr] # None
               THEN /\ frames'[c].pc = "done"
                    /\ frames'[c].result = CacheOf(kind)[mr].list
                    /\ requests' = requests
               ELSE /\ frames'[c].pc = "await"
                    /\ requests' = requests + 1
        /\ CacheOf(kind)[mr] # None => CacheOf(kind)[mr]' = CacheOf(kind)[mr]

\* C8: a call that completes without a fetch error memoizes its list, an
\* empty one included; a memoized entry stays; every call that starts with
\* an entry for its merge request returns that entry and sends no request;
\* a call for a merge request without an entry sends a request, whatever is
\* memoized for other merge requests.
C8_MemoizedAfterFirstFetch == [][C8_Step]_vars

\* an empty list was fetched once and a later call was served from the cache,
\* while a call for the other merge request had to fetch
C8_Witness ==
    /\ frames[1].pc = "done" /\ frames[1].hit /\ frames[1].result = <<>>
    /\ frames[1].mr = 1
    /\ frames[2].pc = "await" /\ frames[2].mr = 2 /\ frames[2].kind = frames[1].kind
    /\ requests = 2

\* C9: under every interleaving of the list calls, a call that returns
\* without a fetch error returns the complete list, each comment once and in
\* order, after fetching each page once itself; and a cache entry always is
\* one complete list.
C9_RaceOnlyRepeatsFetch ==
    /\ \A c \in Callers :
           (frames[c].pc = "done" /\ ~frames[c].failed) =>
               /\ frames[c].result = FullList(frames[c].kind, frames[c].mr)
               /\ ~frames[c].hit =>
                      frames[c].reqs =
                          IF adapter = "github"
                          THEN (Len(RemoteList(frames[c].kind, frames[c].mr)) \div PER_PAGE) + 1
                          ELSE 1
    /\ \A k \in Kinds, m \in MRs :
           CacheOf(k)[m] # None => CacheOf(k)[m] = Entry(FullList(k, m))

\* both callers missed the cache for the same merge request, fetched all its
\* pages and returned
C9_Witness ==
    /\ \A c \in Callers :
           /\ frames[c].pc = "done" /\ ~frames[c].failed /\ ~frames[c].hit
           /\ frames[c].kind = "review" /\ frames[c].mr = 1
           /\ frames[c].reqs = 2
    /\ requests = 4
    /\ Len(reviewCommentsCache[1].list) = PER_PAGE + 1

(***************************************************************************)
(* bufferReviewComment / submitReview                                      *)
(*                                                                         *)
(* One flow: no other operation of the commenter runs while submitReview   *)
(* is suspended.  Each platform call is one step, taken with its outcome   *)
(* (ok: the promise resolves; ~ok: it rejects).  log records the calls.    *)
(***************************************************************************)
Paths == {"a"}
Ranges == {<<1, 2>>, <<2, 2>>}      \* <<startLine, endLine>> of buffered comments
Messages == {<<"m">>}
CommitShas == {"h1"}
StatusMsgs == {<<"status">>}
SubmitMRs == {1}

\* `${COMMENT_GREETING}\n\n${message}\n\n${COMMENT_TAG}`
FormattedMessage(message) ==
    COMMENT_GREETING \o NL \o NL \o message \o NL \o NL \o COMMENT_TAG

\* `${COMMENT_GREETING}\n\n${statusMsg}\n`
StatusBody(statusMsg) == COMMENT_GREETING \o NL \o NL \o statusMsg \o NL

\* generateCommentData: start_line only for a multi-line comment
generateCommentData(comment) ==
    [path |-> comment.path, body |-> comment.message, line |-> comment.endLine,
     startLine |-> IF comment.startLine # comment.endLine THEN comment.startLine ELSE 0,
     span |-> <<comment.startLine, comment.endLine>>]

\* the filter of getCommentsAtRange; an undefined startLine is 0
AtRange(c, path, startLine, endLine) ==
    IF adapter = "github"
    THEN /\ c.path = path
         /\ c.body # <<>>
         /\ \/ c.startLine # 0 /\ c.startLine = startLine /\ c.line = endLine
            \/ startLine = endLine /\ c.line = endLine
    ELSE /\ c.path = path
         /\ c.body # <<>>
         /\ c.line >= startLine
         /\ c.line <= endLine

getCommentsAtRange(comments, path, startLine, endLine) ==
    LET Test(c) == AtRange(c, path, startLine, endLine)
    IN  SelectSeq(comments, Test)

\* the comments of the range the pre-submission loop acts on
TaggedOf(comments) ==
    LET Test(c) == Includes(c.body, COMMENT_TAG)
    IN  SelectSeq(comments, Test)

IdsOf(comments) == [k \in 1..Len(comments) |-> comments[k].id]

RECURSIVE Without(_, _)
Without(comments, id) ==
    IF comments = <<>> THEN <<>>
    ELSE IF Head(comments).id = id THEN Without(Tail(comments), id)
    ELSE <<Head(comments)>> \o Without(Tail(comments), id)

Exists(comments, id) == \E k \in 1..Len(comments) : comments[k].id = id

\* the review comments a list of comment data becomes, ids from nextId on
Posted(data, nextId) ==
    [k \in 1..Len(data) |->
        [id |-> nextId + k - 1, path |-> data[k].path, startLine |-> data[k].startLine,
         line |-> data[k].line, body |-> data[k].body, meta |-> "", span |-> data[k].span]]

BufferIsEmptyNever(buffer) == FALSE

\* (mutant of BufferIsEmpty) one buffered entry still counts as empty
BufferIsShort(buffer) == Len(buffer) <= 1

\* `if (this.reviewCommentsBuffer.length === 0)`
BufferIsEmpty(buffer) == Len(buffer) = 0

BufferKeptWhenFailed(buffer, failed) == IF failed THEN buffer ELSE <<>>

\* `this.reviewCommentsBuffer = []` at the end of submitReview
BufferAfterSubmit(buffer, failed) == <<>>

AnyFailed(l) == \E k \in 1..Len(l) : l[k].op # "getCommentsAtRange" /\ ~l[k].ok

submitVars == <<adapter, reviewCommentsBuffer, reviewCommentsCache, issueCommentsCache,
                remote, frames, requests, sub, log, calls, text>>

\* (mutant of bufferReviewComment) the entry is put in front (unshift)
bufferReviewCommentAtFront(path, startLine, endLine, message) ==
    /\ sub.pc \in {"idle", "returned"}
    /\ calls < MaxOps
    /\ reviewCommentsBuffer' =
           <<[path |-> path, startLine |-> startLine, endLine |-> endLine,
              message |-> FormattedMessage(message)]>> \o reviewCommentsBuffer
    /\ calls' = calls + 1
    /\ sub' = IdleSub
    /\ log' = <<>>
    /\ UNCHANGED <<adapter, reviewCommentsCache, issueCommentsCache, remote, frames,
                   requests, text>>

bufferReviewComment(path, startLine, endLine, message) ==
    /\ sub.pc \in {"idle", "returned"}
    /\ calls < MaxOps
    /\ reviewCommentsBuffer' = Append(reviewCommentsBuffer,
           [path |-> path, startLine |-> startLine, endLine |-> endLine,
            message |-> FormattedMessage(message)])
    /\ calls' = calls + 1
    /\ sub' = IdleSub
    /\ log' = <<>>
    /\ UNCHANGED <<adapter, reviewCommentsCache, issueCommentsCache, remote, frames,
                   requests, text>>

\* submitReview up to its first await
submitReview(mrNumber, commitId, statusMsg) ==
    /\ sub.pc \in {"idle", "returned"}
    /\ calls < MaxOps
    /\ sub' = [IdleSub EXCEPT
                  !.pc = IF BufferIsEmpty(reviewCommentsBuffer) THEN "empty" ELSE "query",
                  !.mr = mrNumber, !.commitId = commitId, !.statusMsg = statusMsg,
                  !.i = 1, !.buf = reviewCommentsBuffer]
    /\ log' = <<>>
    /\ calls' = calls + 1
    /\ UNCHANGED <<adapter, reviewCommentsBuffer, reviewCommentsCache, issueCommentsCache,
                   remote, frames, requests, text>>

\* empty buffer: the status message alone (a COMMENT review on GitHub, a
\* note on GitLab); a failure is logged and submitReview returns
EmptyReview(ok) ==
    /\ sub.pc = "empty"
    /\ log' = Append(log,
           IF adapter = "github"
           THEN [op |-> "createReview", ok |-> ok, commit |-> sub.commitId,
                 event |-> "COMMENT", body |-> StatusBody(sub.statusMsg), comments |-> <<>>,
                 pendingBefore |-> remote.pending[sub.mr].set]
           ELSE [op |-> "createNote", ok |-> ok, body |-> StatusBody(sub.statusMsg)])
    /\ remote' =
           IF ~ok THEN remote
           ELSE IF adapter = "github"
           THEN [remote EXCEPT !.reviews[sub.mr] =
                     Append(@, [body |-> StatusBody(sub.statusMsg), commit |-> sub.commitId])]
           ELSE [remote EXCEPT
                     !.issueComments[sub.mr] =
                         Append(@, RawComment(remote.nextId, "", 0, 0,
                                              StatusBody(sub.statusMsg), "")),
                     !.nextId = @ + 1]
    /\ sub' = [sub EXCEPT !.pc = "returned"]
    /\ UNCHANGED <<adapter, reviewCommentsBuffer, reviewCommentsCache, issueCommentsCache,
                   frames, requests, calls, text>>

\* `await this.getCommentsAtRange(...)` for buffered entry i: the call of
\* listReviewComments inside it, up to its first await
QueryRange ==
    /\ sub.pc = "query"
    /\ ListStart(1, "review", sub.mr)
    /\ sub' = [sub EXCEPT !.pc = "list"]
    /\ UNCHANGED <<adapter, reviewCommentsBuffer, remote, log, calls, text>>

NextEntrySkipsCleanup(s) ==
    IF s.i < Len(reviewCommentsBuffer)
    THEN [s EXCEPT !.pc = "query", !.i = s.i + 1, !.j = 0, !.del = <<>>]
    ELSE IF adapter = "github"
    THEN [s EXCEPT !.pc = "create", !.phase = 1, !.j = 0, !.del = <<>>]
    ELSE [s EXCEPT !.pc = "returned", !.j = 0, !.del = <<>>]

\* where the loop over the buffered entries goes once entry i is dealt with
NextEntry(s) ==
    IF s.i < Len(reviewCommentsBuffer)
    THEN [s EXCEPT !.pc = "query", !.i = s.i + 1, !.j = 0, !.del = <<>>]
    ELSE IF adapter = "github"
    THEN [s EXCEPT !.pc = "pending", !.phase = 1, !.j = 0, !.del = <<>>]
    ELSE [s EXCEPT !.pc = "returned", !.j = 0, !.del = <<>>]

\* GitHub: the inner loop over the comments found at the range of entry i
NextDelete(s) == IF s.j <= Len(s.del) THEN [s EXCEPT !.pc = "delete"] ELSE NextEntry(s)

\* getCommentsAtRange returns: the comments carrying COMMENT_TAG are the
\* ones to delete (GitHub) or to report with info() (GitLab)
RangeQueried ==
    /\ sub.pc = "list"
    /\ frames[1].pc = "done"
    /\ LET comment == reviewCommentsBuffer[sub.i]
           found == getCommentsAtRange(frames[1].result, comment.path,
                                       comment.startLine, comment.endLine)
           tagged == IdsOf(TaggedOf(found))
       IN  /\ log' = Append(log, [op |-> "getCommentsAtRange", i |-> sub.i,
                                  found |-> IdsOf(found), tagged |-> tagged])
           /\ sub' = IF adapter = "github"
                     THEN NextDelete([sub EXCEPT !.del = tagged, !.j = 1])
                     ELSE [sub EXCEPT !.pc = "basesha"]
    /\ UNCHANGED <<adapter, reviewCommentsBuffer, reviewCommentsCache, issueCommentsCache,
                   remote, frames, requests, calls, text>>

\* GitHub: octokit.pulls.deleteReviewComment; a failure is logged
DeleteReviewComment(ok) ==
    /\ sub.pc = "delete"
    /\ ok => Exists(remote.reviewComments[sub.mr], sub.del[sub.j])
    /\ log' = Append(log, [op |-> "deleteReviewComment", ok |-> ok, id |-> sub.del[sub.j],
                           i |-> sub.i])
    /\ remote' = IF ok
                 THEN [remote EXCEPT !.reviewComments[sub.mr] = Without(@, sub.del[sub.j])]
                 ELSE remote
    /\ sub' = NextDelete([sub EXCEPT !.j = sub.j + 1])
    /\ UNCHANGED <<adapter, reviewCommentsBuffer, reviewCommentsCache, issueCommentsCache,
                   frames, requests, calls, text>>

\* where submitReview goes after deletePendingReview returned
AfterCleanup(s) ==
    IF s.phase = 1 THEN [s EXCEPT !.pc = "create"] ELSE [s EXCEPT !.pc = "post", !.i = 1]

\* deletePendingReview: octokit.pulls.listReviews and the search for a
\* PENDING review; a failure is logged
ListReviews(ok) ==
    /\ sub.pc = "pending"
    /\ log' = Append(log, [op |-> "listReviews", ok |-> ok, phase |-> sub.phase,
                           found |-> ok /\ remote.pending[sub.mr].set])
    /\ sub' = IF ok /\ remote.pending[sub.mr].set
              THEN [sub EXCEPT !.pc = "delpending"]
              ELSE AfterCleanup(sub)
    /\ UNCHANGED <<adapter, reviewCommentsBuffer, reviewCommentsCache, issueCommentsCache,
                   remote, frames, requests, calls, text>>

\* deletePendingReview: octokit.pulls.deletePendingReview; a failure is logged
DeletePendingReview(ok) ==
    /\ sub.pc = "delpending"
    /\ log' = Append(log, [op |-> "deletePendingReview", ok |-> ok, phase |-> sub.phase])
    /\ remote' = IF ok THEN [remote EXCEPT !.pending[sub.mr] = None] ELSE remote
    /\ sub' = AfterCleanup(sub)
    /\ UNCHANGED <<adapter, reviewCommentsBuffer, reviewCommentsCache, issueCommentsCache,
                   frames, requests, calls, text>>

BatchComments(buffer) == [k \in 1..Len(buffer) |-> generateCommentData(buffer[k])]

\* octokit.pulls.createReview with the buffered comments and no event: a
\* PENDING review.  The platform keeps at most one pending review of a user
\* on a pull request, so the call fails while one exists.
CreateReview(ok) ==
    /\ sub.pc = "create"
    /\ ok => ~remote.pending[sub.mr].set
    /\ log' = Append(log, [op |-> "createReview", ok |-> ok, commit |-> sub.commitId,
                           event |-> "", body |-> <<>>,
                           comments |-> BatchComments(reviewCommentsBuffer),
                           pendingBefore |-> remote.pending[sub.mr].set])
    /\ remote' = IF ok
                 THEN [remote EXCEPT !.pending[sub.mr] =
                           Entry(BatchComments(reviewCommentsBuffer))]
                 ELSE remote
    /\ sub' = IF ok THEN [sub EXCEPT !.pc = "submit"]
              ELSE [sub EXCEPT !.pc = "pending", !.phase = 2]
    /\ UNCHANGED <<adapter, reviewCommentsBuffer, reviewCommentsCache, issueCommentsCache,
                   frames, requests, calls, text>>

\* octokit.pulls.submitReview of the review just created, event COMMENT,
\* the status message as body; success ends submitReview
SubmitPendingReview(ok) ==
    /\ sub.pc = "submit"
    /\ log' = Append(log, [op |-> "submitReview", ok |-> ok, event |-> "COMMENT",
                           body |-> StatusBody(sub.statusMsg)])
    /\ IF ok
       THEN /\ remote' = [remote EXCEPT
                    !.reviewComments[sub.mr] =
                        @ \o Posted(remote.pending[sub.mr].list, remote.nextId),
                    !.reviews[sub.mr] =
                        Append(@, [body |-> StatusBody(sub.statusMsg),
                                   commit |-> sub.commitId]),
                    !.pending[sub.mr] = None,
                    !.nextId = @ + Len(remote.pending[sub.mr].list)]
            /\ sub' = [sub EXCEPT !.pc = "returned"]
            /\ reviewCommentsBuffer' = BufferAfterSubmit(reviewCommentsBuffer, AnyFailed(log'))
       ELSE /\ remote' = remote
            /\ sub' = [sub EXCEPT !.pc = "pending", !.phase = 2]
            /\ UNCHANGED reviewCommentsBuffer
    /\ UNCHANGED <<adapter, reviewCommentsCache, issueCommentsCache, frames, requests,
                   calls, text>>

StopAtFailedPost(s, ok) == ~ok \/ ~(s.i < Len(reviewCommentsBuffer))

\* the fallback loop ends after the last buffered entry, not at a failure
LastPost(s, ok) == ~(s.i < Len(reviewCommentsBuffer))

\* fallback: octokit.pulls.createReviewComment for buffered entry i; a
\* failure is logged and the loop goes on
CreateReviewComment(ok) ==
    /\ sub.pc = "post"
    /\ LET data == generateCommentData(reviewCommentsBuffer[sub.i])
       IN  /\ log' = Append(log, [op |-> "createReviewComment", ok |-> ok, i |-> sub.i,
                                  commit |-> sub.commitId, data |-> data,
                                  id |-> IF ok THEN remote.nextId ELSE 0])
           /\ remote' = IF ok
                        THEN [remote EXCEPT
                                 !.reviewComments[sub.mr] =
                                     @ \o Posted(<<data>>, remote.nextId),
                                 !.nextId = @ + 1]
                        ELSE remote
    /\ IF LastPost(sub, ok)
       THEN /\ sub' = [sub EXCEPT !.pc = "returned"]
            /\ reviewCommentsBuffer' = BufferAfterSubmit(reviewCommentsBuffer, AnyFailed(log'))
       ELSE /\ sub' = [sub EXCEPT !.i = sub.i + 1]
            /\ UNCHANGED reviewCommentsBuffer
    /\ UNCHANGED <<adapter, reviewCommentsCache, issueCommentsCache, frames, requests,
                   calls, text>>

\* GitLab: getBaseSha, i.e. client.getMergeRequestInfo; '' when it fails
GetBaseSha(ok) ==
    /\ sub.pc = "basesha"
    /\ log' = Append(log, [op |-> "getMergeRequestInfo", ok |-> ok])
    /\ sub' = [sub EXCEPT !.pc = "discussion", !.baseSha = IF ok THEN "base" ELSE ""]
    /\ UNCHANGED <<adapter, reviewCommentsBuffer, reviewCommentsCache, issueCommentsCache,
                   remote, frames, requests, calls, text>>

\* (mutant of EndOfEntry) the loop ends after the first entry dealt with
EndOfEntryBreaks(s) ==
    /\ sub' = [s EXCEPT !.pc = "returned", !.j = 0, !.del = <<>>]
    /\ reviewCommentsBuffer' = <<>>

\* GitLab: the end of one turn of the loop over the buffered entries
EndOfEntry(s) ==
    /\ sub' = NextEntry(s)
    /\ reviewCommentsBuffer' =
           IF NextEntry(s).pc = "returned"
           THEN BufferAfterSubmit(reviewCommentsBuffer, AnyFailed(log'))
           ELSE reviewCommentsBuffer

\* GitLab: gitlab.MergeRequestDiscussions.create at newLine = endLine
CreateDiscussion(ok) ==
    /\ sub.pc = "discussion"
    /\ LET comment == reviewCommentsBuffer[sub.i]
       IN  /\ log' = Append(log, [op |-> "createDiscussion", ok |-> ok, i |-> sub.i,
                                  body |-> comment.message,
                                  position |-> [baseSha |-> sub.baseSha,
                                                startSha |-> sub.baseSha,
                                                headSha |-> sub.commitId,
                                                newPath |-> comment.path,
                                                newLine |-> comment.endLine,
                                                oldPath |-> comment.path]])
           /\ remote' = IF ok
                        THEN [remote EXCEPT
                                 !.reviewComments[sub.mr] =
                                     Append(@, [RawComment(remote.nextId, comment.path, 0,
                                                           comment.endLine, comment.message, "")
                                                EXCEPT !.span = <<comment.startLine,
                                                                  comment.endLine>>]),
                                 !.nextId = @ + 1]
                        ELSE remote
    /\ IF ok
       THEN EndOfEntry(sub)
       ELSE /\ sub' = [sub EXCEPT !.pc = "note"]
            /\ UNCHANGED reviewCommentsBuffer
    /\ UNCHANGED <<adapter, reviewCommentsCache, issueCommentsCache, frames, requests,
                   calls, text>>

\* GitLab fallback: gitlab.MergeRequestNotes.create with the file reference
CreateFallbackNote(ok) ==
    /\ sub.pc = "note"
    /\ LET comment == reviewCommentsBuffer[sub.i]
           fallbackMessage == <<"**", comment.path, "**", " ", "(lines", " ",
                                ToString(comment.startLine), "-",
                                ToString(comment.endLine), ")">>
                                  \o NL \o NL \o comment.message
       IN  /\ log' = Append(log, [op |-> "createNote", ok |-> ok, i |-> sub.i,
                                  body |-> fallbackMessage])
           /\ remote' = IF ok
                        THEN [remote EXCEPT
                                 !.issueComments[sub.mr] =
                                     Append(@, RawComment(remote.nextId, "", 0, 0,
                                                          fallbackMessage, "")),
                                 !.nextId = @ + 1]
                        ELSE remote
    /\ EndOfEntry(sub)
    /\ UNCHANGED <<adapter, reviewCommentsCache, issueCommentsCache, frames, requests,
                   calls, text>>

(***************************************************************************)
(* Spec: one commenter instance on one merge request                       *)
(***************************************************************************)
Tagged(id, path, startLine, line) ==
    RawComment(id, path, startLine, line, FormattedMessage(<<"old">>), "")
Plain(id, path, startLine, line) == RawComment(id, path, startLine, line, <<"human">>, "")

\* the review comments the merge request has when the commenter is created
InitialReviewComments ==
    {<<>>,
     <<Tagged(1, "a", 0, 2)>>,
     <<Tagged(1, "a", 1, 2)>>,
     <<Plain(1, "a", 0, 2)>>,
     <<Tagged(1, "b", 0, 2)>>}

\* a pending review an interrupted earlier run may have left (GitHub)
InitialPending ==
    {None,
     Entry(<<[path |-> "a", body |-> FormattedMessage(<<"old">>), line |-> 2,
              startLine |-> 0, span |-> <<2, 2>>]>>)}

Init ==
    /\ adapter \in {"github", "gitlab"}
    /\ \E rc \in InitialReviewComments, pr \in InitialPending :
           /\ adapter = "gitlab" =>
                  /\ pr = None
                  /\ \A k \in 1..Len(rc) : rc[k].startLine = 0
           /\ remote = [NoRemote EXCEPT
                           !.reviewComments = [mr \in MRs |-> IF mr \in SubmitMRs THEN rc ELSE <<>>],
                           !.pending = [mr \in MRs |-> IF mr \in SubmitMRs THEN pr ELSE None],
                           !.nextId = Len(rc) + 1]
    /\ reviewCommentsBuffer = <<>>
    /\ reviewCommentsCache = NoCache
    /\ issueCommentsCache = NoCache
    /\ frames = [c \in Callers |-> IdleFrame]
    /\ requests = 0
    /\ sub = IdleSub
    /\ log = <<>>
    /\ calls = 0
    /\ text = NoText

Next ==
    \/ \E path \in Paths, range \in Ranges, message \in Messages :
           bufferReviewComment(path, range[1], range[2], message)
    \/ \E mrNumber \in SubmitMRs, commitId \in CommitShas, statusMsg \in StatusMsgs :
           submitReview(mrNumber, commitId, statusMsg)
    \/ \E ok \in BOOLEAN : EmptyReview(ok)
    \/ QueryRange
    \/ \E ok \in BOOLEAN : ListResponse(1, ok)
    \/ RangeQueried
    \/ \E ok \in BOOLEAN : DeleteReviewComment(ok)
    \/ \E ok \in BOOLEAN : ListReviews(ok)
    \/ \E ok \in BOOLEAN : DeletePendingReview(ok)
    \/ \E ok \in BOOLEAN : CreateReview(ok)
    \/ \E ok \in BOOLEAN : SubmitPendingReview(ok)
    \/ \E ok \in BOOLEAN : CreateReviewComment(ok)
    \/ \E ok \in BOOLEAN : GetBaseSha(ok)
    \/ \E ok \in BOOLEAN : CreateDiscussion(ok)
    \/ \E ok \in BOOLEAN : CreateFallbackNote(ok)

Spec == Init /\ [][Next]_vars

\* every platform call succeeds: the steps of Next with ok = TRUE (the
\* fallback steps need a failure and never run)
NextOk ==
    \/ \E path \in Paths, range \in Ranges, message \in Messages :
           bufferReviewComment(path, range[1], range[2], message)
    \/ \E mrNumber \in SubmitMRs, commitId \in CommitShas, statusMsg \in StatusMsgs :
           submitReview(mrNumber, commitId, statusMsg)
    \/ EmptyReview(TRUE)
    \/ QueryRange
    \/ ListResponse(1, TRUE)
    \/ RangeQueried
    \/ DeleteReviewComment(TRUE)
    \/ ListReviews(TRUE)
    \/ DeletePendingReview(TRUE)
    \/ CreateReview(TRUE)
    \/ SubmitPendingReview(TRUE)
    \/ GetBaseSha(TRUE)
    \/ CreateDiscussion(TRUE)

SpecOk == Init /\ [][NextOk]_vars

(***************************************************************************)
(* SpecRange: getCommentsAtRange calls of one commenter on a merge request *)
(* that holds a multi-line and single-line review comments                 *)
(***************************************************************************)
QueryLines == 2..MaxLine
QueryPaths == {"a"}

\* the review comments of the merge request: one written for lines 3-5 and
\* single-line ones at line 5
RangeComments ==
    {<<>>,
     <<Plain(1, "a", 3, 5)>>,
     <<Plain(1, "a", 0, 5)>>,
     <<Plain(1, "a", 3, 5), Plain(2, "a", 0, 5)>>,
     <<Plain(1, "b", 0, 5), Plain(2, "a", 0, 5)>>}

InitRange ==
    /\ adapter \in {"github", "gitlab"}
    /\ \E rc \in RangeComments :
           remote = [NoRemote EXCEPT
                        !.reviewComments = [mr \in MRs |-> IF mr \in SubmitMRs THEN rc ELSE <<>>],
                        !.nextId = Len(rc) + 1]
    /\ reviewCommentsBuffer = <<>>
    /\ reviewCommentsCache = NoCache
    /\ issueCommentsCache = NoCache
    /\ frames = [c \in Callers |-> IdleFrame]
    /\ requests = 0
    /\ sub = IdleSub
    /\ log = <<>>
    /\ calls = 0
    /\ text = NoText

\* getCommentsAtRange up to `await this.listReviewComments(mrNumber)`
GetCommentsAtRange(mrNumber, path, startLine, endLine) ==
    /\ calls < MaxCalls
    /\ text.op # "awaiting"
    /\ ListStart(1, "review", mrNumber)
    /\ text' = [op |-> "awaiting", body |-> <<path, startLine, endLine>>, arg |-> <<>>,
                out |-> <<>>, n |-> 0]
    /\ calls' = calls + 1
    /\ UNCHANGED <<adapter, reviewCommentsBuffer, remote, sub, log>>

\* listReviewComments returned: the filter is applied to its result
CommentsAtRangeReturned ==
    /\ text.op = "awaiting"
    /\ frames[1].pc = "done"
    /\ text' = [text EXCEPT
                    !.op = "getCommentsAtRange",
                    !.arg = frames[1].result,
                    !.out = getCommentsAtRange(frames[1].result, text.body[1], text.body[2],
                                               text.body[3])]
    /\ UNCHANGED <<adapter, reviewCommentsBuffer, reviewCommentsCache, issueCommentsCache,
                   remote, frames, requests, sub, log, calls>>

NextRange ==
    \/ \E mrNumber \in SubmitMRs, path \in QueryPaths, startLine \in QueryLines,
          endLine \in QueryLines :
           startLine <= endLine /\ GetCommentsAtRange(mrNumber, path, startLine, endLine)
    \/ \E ok \in BOOLEAN : ListResponse(1, ok)
    \/ CommentsAtRangeReturned

SpecRange == InitRange /\ [][NextRange]_vars

(***************************************************************************)
(* Properties of getCommentsAtRange                                        *)
(***************************************************************************)
RangeReturned == text.op = "getCommentsAtRange"

\* C18: getCommentsAtRange(mr, path, s, e) returns a review comment that has
\* startLine = a and line = b with a < b only when (s, e) = (a, b); a comment
\* with startLine 3 and line 5 is not returned for (3,6), (5,5) or (2,5).
C18_MultiLineExactRange ==
    RangeReturned =>
        \A k \in 1..Len(text.out) :
            LET c == text.out[k]
            IN  (c.startLine # 0 /\ c.startLine < c.line) =>
                    (text.body[2] = c.startLine /\ text.body[3] = c.line)

\* C19: getCommentsAtRange(mr, path, s, e) returns a review comment that has
\* no startLine and is anchored at line L only when s = e = L; a range that
\* merely contains L does not return it.
C19_SingleLineExactRange ==
    RangeReturned =>
        \A k \in 1..Len(text.out) :
            LET c == text.out[k]
            IN  c.startLine = 0 => (text.body[2] = c.line /\ text.body[3] = c.line)

(***************************************************************************)
(* getCommentsWithinRange / getCommentChainsWithinRange                    *)
(***************************************************************************)
\* the filter of getCommentsWithinRange; an undefined startLine is 0
WithinRange(c, path, startLine, endLine) ==
    IF adapter = "github"
    THEN /\ c.path = path
         /\ c.body # <<>>
         /\ \/ c.startLine # 0 /\ c.startLine >= startLine /\ c.line <= endLine
            \/ startLine = endLine /\ c.line = endLine
    ELSE /\ c.path = path
         /\ c.body # <<>>
         /\ c.line >= startLine
         /\ c.line <= endLine

getCommentsWithinRange(comments, path, startLine, endLine) ==
    LET Test(c) == WithinRange(c, path, startLine, endLine)
    IN  SelectSeq(comments, Test)

\* `Conversation Chain ${chainNum}:\n${chain}\n---\n`
ChainBlock(chainNum, chain) ==
    <<"Conversation Chain ", ToString(chainNum), ":", "\n">> \o chain \o <<"\n", "---", "\n">>

\* `if (chain && chain.includes(tag))`
ChainRetained(chain, tag) == chain # <<>> /\ Includes(chain, tag)

\* the loop over topLevelComments, from chainNum on
RECURSIVE ChainBlocks(_, _, _, _)
ChainBlocks(existingComments, topLevelComments, tag, chainNum) ==
    IF topLevelComments = <<>> THEN <<>>
    ELSE LET chain == composeCommentChain(existingComments, Head(topLevelComments))
         IN  IF ChainRetained(chain, tag)
             THEN ChainBlock(chainNum + 1, chain)
                      \o ChainBlocks(existingComments, Tail(topLevelComments), tag, chainNum + 1)
             ELSE ChainBlocks(existingComments, Tail(topLevelComments), tag, chainNum)

\* getCommentChainsWithinRange from the result of listReviewComments on
getCommentChainsWithinRange(comments, path, startLine, endLine, tag) ==
    LET existingComments == getCommentsWithinRange(comments, path, startLine, endLine)
        TopLevel(c) == c.inReplyToId = 0
        topLevelComments == SelectSeq(existingComments, TopLevel)
    IN  ChainBlocks(existingComments, topLevelComments, tag, 0)

(***************************************************************************)
(* SpecChains: getCommentChainsWithinRange calls of one commenter          *)
(***************************************************************************)
\* a review comment of a thread as the platform returns it
ThreadComment(id, path, startLine, line, body, inReplyToId) ==
    [id |-> id, path |-> path, startLine |-> startLine, line |-> line, body |-> body,
     meta |-> "", span |-> <<IF startLine = 0 THEN line ELSE startLine, line>>,
     inReplyToId |-> inReplyToId, author |-> [login |-> <<"author", ToString(id)>>]]

ToolBody == FormattedMessage(<<"old">>)
HumanBody == <<"human">>

\* the review comments of the merge request
ChainComments ==
    {<<>>,
     <<ThreadComment(1, "a", 0, 4, ToolBody, 0), ThreadComment(2, "a", 0, 4, HumanBody, 1)>>,
     <<ThreadComment(1, "a", 0, 3, HumanBody, 0), ThreadComment(2, "a", 0, 5, ToolBody, 0),
       ThreadComment(3, "a", 0, 5, HumanBody, 2)>>,
     <<ThreadComment(1, "a", 2, MaxLine + 2, ToolBody, 0),
       ThreadComment(2, "a", 2, MaxLine + 2, HumanBody, 1)>>,
     <<ThreadComment(1, "a", 3, 5, HumanBody, 0), ThreadComment(2, "a", 4, 6, ToolBody, 0),
       ThreadComment(3, "b", 4, 6, ToolBody, 0)>>}

ChainTags == {<<>>, COMMENT_TAG}

InitChains ==
    /\ adapter \in {"github", "gitlab"}
    /\ \E rc \in ChainComments :
           /\ adapter = "gitlab" => \A k \in 1..Len(rc) : rc[k].startLine = 0
           /\ remote = [NoRemote EXCEPT
                           !.reviewComments = [mr \in MRs |-> IF mr \in SubmitMRs THEN rc ELSE <<>>],
                           !.nextId = Len(rc) + 1]
    /\ reviewCommentsBuffer = <<>>
    /\ reviewCommentsCache = NoCache
    /\ issueCommentsCache = NoCache
    /\ frames = [c \in Callers |-> IdleFrame]
    /\ requests = 0
    /\ sub = IdleSub
    /\ log = <<>>
    /\ calls = 0
    /\ text = NoText

\* getCommentChainsWithinRange up to `await this.listReviewComments(mrNumber)`
\* inside getCommentsWithinRange
GetCommentChainsWithinRange(mrNumber, path, startLine, endLine, tag) ==
    /\ calls < MaxCalls
    /\ text.op # "awaiting"
    /\ ListStart(1, "review", mrNumber)
    /\ text' = [op |-> "awaiting", body |-> <<path, startLine, endLine, tag>>, arg |-> <<>>,
                out |-> <<>>, n |-> 0]
    /\ calls' = calls + 1
    /\ UNCHANGED <<adapter, reviewCommentsBuffer, remote, sub, log>>

\* listReviewComments returned: the rest of the call
CommentChainsReturned ==
    /\ text.op = "awaiting"
    /\ frames[1].pc = "done"
    /\ text' = [text EXCEPT
                    !.op = "getCommentChainsWithinRange",
                    !.arg = frames[1].result,
                    !.out = getCommentChainsWithinRange(frames[1].result, text.body[1],
                                text.body[2], text.body[3], text.body[4])]
    /\ UNCHANGED <<adapter, reviewCommentsBuffer, reviewCommentsCache, issueCommentsCache,
                   remote, frames, requests, sub, log, calls>>

NextChains ==
    \/ \E mrNumber \in SubmitMRs, path \in QueryPaths, startLine \in QueryLines,
          endLine \in QueryLines, tag \in ChainTags :
           /\ startLine <= endLine
           /\ GetCommentChainsWithinRange(mrNumber, path, startLine, endLine, tag)
    \/ \E ok \in BOOLEAN : ListResponse(1, ok)
    \/ CommentChainsReturned

SpecChains == InitChains /\ [][NextChains]_vars

(***************************************************************************)
(* Properties of getCommentChainsWithinRange                               *)
(***************************************************************************)
\* the lines the comment was written for
SpanOf(c) == <<IF c.startLine = 0 THEN c.line ELSE c.startLine, c.line>>

Overlaps(c, startLine, endLine) == SpanOf(c)[1] <= endLine /\ SpanOf(c)[2] >= startLine

\* the blocks of the chains of roots that contain tag, numbered from n + 1
RECURSIVE NumberedChains(_, _, _, _)
NumberedChains(comments, roots, tag, n) ==
    IF roots = <<>> THEN <<>>
    ELSE LET chain == composeCommentChain(comments, Head(roots))
         IN  IF Includes(chain, tag)
             THEN ChainBlock(n + 1, chain) \o NumberedChains(comments, Tail(roots), tag, n + 1)
             ELSE NumberedChains(comments, Tail(roots), tag, n)

\* C22: getCommentChainsWithinRange outputs exactly the chains of the root
\* comments on path whose line span overlaps [s, e], keeping the chains whose
\* text contains tag, in fetch order, under the headers "Conversation Chain
\* N" with N = 1, 2, ... without gaps; a root whose span overlaps the range
\* without being contained in it is included.
C22_ChainsOfOverlappingRoots ==
    text.op = "getCommentChainsWithinRange" =>
        LET IsRoot(c) == /\ c.inReplyToId = 0
                         /\ c.path = text.body[1]
                         /\ Overlaps(c, text.body[2], text.body[3])
        IN  text.out = NumberedChains(text.arg, SelectSeq(text.arg, IsRoot), text.body[4], 0)

(***************************************************************************)
(* Properties of bufferReviewComment / submitReview                        *)
(***************************************************************************)
Returned == sub.pc = "returned"
IndicesOf(op) == {k \in 1..Len(log) : log[k].op = op}
Lowest(S) == CHOOSE k \in S : \A m \in S : k <= m
\* the calls that create review comments for buffered entry i
CreatesFor(i) ==
    {k \in 1..Len(log) :
        \/ log[k].op = "createReview" /\ log[k].event = ""
        \/ log[k].op \in {"createReviewComment", "createDiscussion"} /\ log[k].i = i}
\* the batch review creation or its submission raised
BatchRaised ==
    \E m \in 1..Len(log) : log[m].op \in {"createReview", "submitReview"} /\ ~log[m].ok

\* C1: whenever submitReview has returned, the buffer is empty.
C1_BufferEmptyOnReturn == Returned => reviewCommentsBuffer = <<>>

\* submitReview returned on the fallback path with a failed individual post
C1_Witness ==
    /\ Returned
    /\ reviewCommentsBuffer = <<>>
    /\ Len(sub.buf) = 2
    /\ BatchRaised
    /\ \E k \in IndicesOf("createReviewComment") : ~log[k].ok

\* C2 as stated: between calls, no two review comments carrying COMMENT_TAG
\* sit at the same exact location of the merge request.
C2_AtMostOneTaggedPerLocation ==
    sub.pc \in {"idle", "returned"} =>
        \A mr \in SubmitMRs :
            LET rc == remote.reviewComments[mr]
            IN  \A k1, k2 \in 1..Len(rc) :
                    (/\ k1 # k2
                     /\ Includes(rc[k1].body, COMMENT_TAG)
                     /\ Includes(rc[k2].body, COMMENT_TAG)
                     /\ rc[k1].path = rc[k2].path)
                        => rc[k1].span # rc[k2].span

\* C3 as stated: when the creation of the review comment for a buffered
\* entry is attempted, every comment carrying COMMENT_TAG that
\* getCommentsAtRange returned for that entry has had its deletion
\* attempted, after the query and before the creation.
C3_DeletedBeforeCreation ==
    \A q \in IndicesOf("getCommentsAtRange") :
        \A k \in CreatesFor(log[q].i) :
            \A t \in 1..Len(log[q].tagged) :
                \E d \in IndicesOf("deleteReviewComment") :
                    /\ q < d
                    /\ d < k
                    /\ log[d].id = log[q].tagged[t]

\* C4: on GitHub individual comments are posted only after the batch review
\* creation or submission raised and the pending-review cleanup ran again;
\* the posts are the buffered entries, once each and in buffer order,
\* whatever posts fail; nothing is deleted once posting began, and every
\* comment posted stays on the platform.
C4_FallbackPostsEveryEntryOnce ==
    LET posts == IndicesOf("createReviewComment")
    IN  /\ posts # {} =>
               /\ \E m \in 1..Len(log), q \in IndicesOf("listReviews") :
                      /\ log[m].op \in {"createReview", "submitReview"}
                      /\ ~log[m].ok
                      /\ m < q
                      /\ q < Lowest(posts)
               /\ \A k \in Lowest(posts)..Len(log) : k \in posts
               /\ \A k \in posts :
                      /\ log[k].i = k - Lowest(posts) + 1
                      /\ log[k].data = generateCommentData(sub.buf[log[k].i])
                      /\ log[k].commit = sub.commitId
                      /\ log[k].ok => Exists(remote.reviewComments[sub.mr], log[k].id)
        /\ (Returned /\ adapter = "github" /\ sub.buf # <<>>) =>
               Cardinality(posts) = IF BatchRaised THEN Len(sub.buf) ELSE 0

\* the batch submission raised, the first individual post failed and the
\* second went through
C4_Witness ==
    /\ Returned
    /\ Len(sub.buf) = 2
    /\ \E m \in IndicesOf("submitReview") : ~log[m].ok
    /\ \E k \in IndicesOf("createReviewComment") :
           /\ ~log[k].ok
           /\ log[k].i = 1
           /\ k + 1 \in IndicesOf("createReviewComment")
           /\ log[k + 1].ok

\* the pending-review cleanup that runs right before log entry k succeeded
CleanupSucceeded(k) ==
    \/ log[k - 1].op = "listReviews" /\ log[k - 1].ok
    \/ log[k - 1].op = "deletePendingReview" /\ log[k - 1].ok

\* C5: on GitHub with a non-empty buffer the pending-review cleanup runs
\* right before the one batch review creation; the creation carries exactly
\* the buffered entries in buffer order at the given commit id; after a
\* successful cleanup no pending review exists when it is attempted; the
\* one submission follows a successful creation only, directly, with the
\* status message as body.
C5_CleanupCreateSubmitOrder ==
    (adapter = "github" /\ sub.buf # <<>>) =>
        LET creates == IndicesOf("createReview")
            submits == IndicesOf("submitReview")
        IN  /\ Cardinality(creates) <= 1
            /\ Cardinality(submits) <= 1
            /\ \A k \in creates :
                   /\ k > 1
                   /\ \/ log[k - 1].op = "listReviews" /\ ~log[k - 1].found
                      \/ /\ k > 2
                         /\ log[k - 1].op = "deletePendingReview"
                         /\ log[k - 2].op = "listReviews"
                   /\ log[k].comments = BatchComments(sub.buf)
                   /\ log[k].commit = sub.commitId
                   /\ log[k].event = ""
                   /\ CleanupSucceeded(k) => ~log[k].pendingBefore
                   /\ (log[k].ok /\ k < Len(log)) => k + 1 \in submits
                   /\ (log[k].ok /\ k = Len(log)) => sub.pc = "submit"
            /\ \A k \in submits :
                   /\ k - 1 \in creates
                   /\ log[k - 1].ok
                   /\ log[k].body = StatusBody(sub.statusMsg)
                   /\ log[k].event = "COMMENT"

\* a pending review was found and deleted, then the batch of two entries
\* was created and submitted
C5_Witness ==
    /\ Returned
    /\ adapter = "github"
    /\ Len(sub.buf) = 2
    /\ \E k \in IndicesOf("deletePendingReview") :
           /\ log[k].ok
           /\ k + 1 \in IndicesOf("createReview")
           /\ log[k + 1].ok
           /\ k + 2 \in IndicesOf("submitReview")
           /\ log[k + 2].ok

C6_Returned ==
    (Returned /\ sub.buf = <<>>) =>
        /\ Len(log) = 1
        /\ log[1].op = IF adapter = "github" THEN "createReview" ELSE "createNote"
        /\ log[1].body = StatusBody(sub.statusMsg)
        /\ adapter = "github" => log[1].comments = <<>> /\ log[1].event = "COMMENT"
        /\ reviewCommentsBuffer = <<>>

C6_Step ==
    /\ (sub.pc \in {"idle", "returned"} /\ sub'.pc \notin {"idle", "returned"}
            /\ reviewCommentsBuffer = <<>>) => sub'.pc = "empty"
    /\ sub.pc = "empty" =>
           /\ sub'.pc = "returned"
           /\ Len(log') = 1
           /\ requests' = requests
           /\ remote'.reviewComments = remote.reviewComments
           /\ remote'.pending = remote.pending
           /\ ~log'[1].ok => remote' = remote

\* C6: submitReview with an empty buffer makes exactly one platform call,
\* the posting of the status message alone, and returns whether or not the
\* call failed (a failed call changes nothing on the platform); it sends no
\* list request, deletes no review comment, touches no pending review, and
\* the buffer stays empty.
C6_EmptyBufferPostsStatusOnly == []C6_Returned /\ [][C6_Step]_vars

\* submitReview returned from an empty buffer after its one call failed
C6_Witness ==
    /\ Returned
    /\ sub.buf = <<>>
    /\ Len(log) = 1
    /\ ~log[1].ok
    /\ reviewCommentsBuffer = <<>>

(***************************************************************************)
(* comment, updateDescription, reviewCommentReply                          *)
(*                                                                         *)
(* sub is the activation record of the running operation, as for           *)
(* submitReview; pc = "raised" is an exception leaving the operation.      *)
(***************************************************************************)
SUMMARIZE_TAG ==
    <<"<!--", " ", "This is an auto-generated comment: summarize by OSS CodeRabbit", " ", "-->">>

\* context.getMergeRequestNumber(): 0 when the event names no merge request
ContextMRs == {0, 1}
CommentTags == {<<>>, SUMMARIZE_TAG}
CommentModes == {"create", "replace"}

IdleWrite ==
    [pc |-> "idle", op |-> "", mr |-> 0, body |-> <<>>, tag |-> <<>>, mode |-> "",
     listed |-> <<>>, cmt |-> 0, top |-> <<>>, before |-> <<>>, error |-> FALSE]

\* `${COMMENT_GREETING}\n\n${message}\n\n${tag}`
CommentBody(message, tag) == COMMENT_GREETING \o NL \o NL \o message \o NL \o NL \o tag

\* `if (!tag) tag = COMMENT_TAG`
TagOrDefault(tag) == IF tag = <<>> THEN COMMENT_TAG ELSE tag

\* (mutant of Caught) only create() has a try block
CaughtInCreateOnly(site) == site \in {"createComment"}

\* (mutant of FirstWithTag) the last comment with the tag
LastWithTag(comments, tag) ==
    LET hits == {k \in 1..Len(comments) :
                    comments[k].body # <<>> /\ Includes(comments[k].body, tag)}
    IN  IF hits = {} THEN 0 ELSE comments[CHOOSE k \in hits : \A h \in hits : k >= h].id

\* the platform calls that sit inside a try block whose catch only logs
Caught(site) ==
    site \in {"createComment", "updateComment", "pulls.get", "pulls.update",
              "createReply", "createReplyError", "updateReviewComment",
              "discussions.all", "addNote", "createReplyNote"}

\* where a call site continues: after the call, in its catch block, or not at all
After(site, ok, next, handler) == IF ok THEN next ELSE IF Caught(site) THEN handler ELSE "raised"

\* the top-level comment a create call adds
NewComment(id, body) == RawComment(id, "", 0, 0, body, "")

\* comment() up to its first await
comment(mrNumber, message, tag, mode) ==
    /\ sub.pc \in {"idle", "returned"}
    /\ calls < MaxWrites
    /\ calls' = calls + 1
    /\ log' = <<>>
    /\ IF mrNumber = 0
       THEN \* `if (!mrNumber) { warning(...); return }`
            /\ sub' = [IdleWrite EXCEPT !.pc = "returned", !.op = "comment", !.mode = mode,
                                        !.tag = TagOrDefault(tag)]
            /\ UNCHANGED frames
            /\ UNCHANGED requests
       ELSE /\ sub' = [IdleWrite EXCEPT
                          !.pc = IF mode = "create" THEN "createComment" ELSE "find",
                          !.op = "comment", !.mr = mrNumber, !.mode = mode,
                          !.tag = TagOrDefault(tag),
                          !.body = CommentBody(message, TagOrDefault(tag)),
                          !.before = remote.issueComments[mrNumber]]
            /\ IF mode = "create"
               THEN UNCHANGED <<frames, requests>>
               ELSE ListStart(1, "issue", mrNumber)
    /\ IF mrNumber # 0 /\ mode = "replace"
       THEN TRUE
       ELSE UNCHANGED <<reviewCommentsCache, issueCommentsCache>>
    /\ UNCHANGED <<adapter, reviewCommentsBuffer, remote, text>>

\* `for (const cmt of comments) if (cmt.body && cmt.body.includes(tag)) return cmt`
FirstWithTag(comments, tag) ==
    LET hits == {k \in 1..Len(comments) :
                    comments[k].body # <<>> /\ Includes(comments[k].body, tag)}
    IN  IF hits = {} THEN 0 ELSE comments[CHOOSE k \in hits : \A h \in hits : k <= h].id

\* findCommentWithTag returns: replace() updates the comment found or creates one
FoundCommentWithTag ==
    /\ sub.pc = "find"
    /\ sub.op = "comment"
    /\ frames[1].pc = "done"
    /\ LET cmt == FirstWithTag(frames[1].result, sub.tag)
       IN  sub' = [sub EXCEPT !.pc = IF cmt # 0 THEN "updateComment" ELSE "createComment",
                              !.listed = frames[1].result, !.cmt = cmt]
    /\ UNCHANGED <<adapter, reviewCommentsBuffer, reviewCommentsCache, issueCommentsCache,
                   remote, frames, requests, log, calls, text>>

\* the body of comment id replaced
RECURSIVE WithBody(_, _, _)
WithBody(comments, id, body) ==
    IF comments = <<>> THEN <<>>
    ELSE <<IF Head(comments).id = id THEN [Head(comments) EXCEPT !.body = body]
           ELSE Head(comments)>> \o WithBody(Tail(comments), id, body)

\* replace(): octokit.issues.updateComment / MergeRequestNotes.edit
UpdateComment(ok) ==
    /\ sub.pc = "updateComment"
    /\ ok => Exists(remote.issueComments[sub.mr], sub.cmt)
    /\ log' = Append(log, [op |-> "updateComment", ok |-> ok, id |-> sub.cmt, body |-> sub.body])
    /\ remote' = IF ok THEN [remote EXCEPT !.issueComments[sub.mr] = WithBody(@, sub.cmt, sub.body)]
                 ELSE remote
    /\ sub' = [sub EXCEPT !.pc = After("updateComment", ok, "returned", "returned")]
    /\ UNCHANGED <<adapter, reviewCommentsBuffer, reviewCommentsCache, issueCommentsCache,
                   frames, requests, calls, text>>

\* create(): octokit.issues.createComment / MergeRequestNotes.create, and the
\* push onto the cached list when there is one
CreateComment(ok) ==
    /\ sub.pc = "createComment"
    /\ log' = Append(log, [op |-> "createComment", ok |-> ok, id |-> remote.nextId,
                           body |-> sub.body])
    /\ remote' = IF ok THEN [remote EXCEPT
                                 !.issueComments[sub.mr] = Append(@, NewComment(remote.nextId, sub.body)),
                                 !.nextId = @ + 1]
                 ELSE remote
    /\ issueCommentsCache' =
           IF ok /\ CacheHit(issueCommentsCache[sub.mr])
           THEN [issueCommentsCache EXCEPT ![sub.mr] =
                    Entry(Append(@.list, NewComment(remote.nextId, sub.body)))]
           ELSE issueCommentsCache
    /\ sub' = [sub EXCEPT !.pc = After("createComment", ok, "returned", "returned")]
    /\ UNCHANGED <<adapter, reviewCommentsBuffer, reviewCommentsCache, frames, requests,
                   calls, text>>

\* updateDescription up to its first await (everything runs inside one try)
updateDescription(mrNumber, message) ==
    /\ sub.pc \in {"idle", "returned"}
    /\ calls < MaxWrites
    /\ calls' = calls + 1
    /\ log' = <<>>
    /\ sub' = [IdleWrite EXCEPT !.pc = "pulls.get", !.op = "updateDescription",
                                !.mr = mrNumber, !.body = message,
                                !.before = remote.description[mrNumber]]
    /\ UNCHANGED <<adapter, reviewCommentsBuffer, reviewCommentsCache, issueCommentsCache,
                   remote, frames, requests, text>>

\* octokit.pulls.get / MergeRequests.show, then the new description is composed
PullsGet(ok) ==
    /\ sub.pc = "pulls.get"
    /\ log' = Append(log, [op |-> "pulls.get", ok |-> ok, id |-> sub.mr, body |-> <<>>])
    /\ sub' = [sub EXCEPT !.pc = After("pulls.get", ok, "pulls.update", "returned"),
                          !.body = IF ok THEN newDescription(remote.description[sub.mr], @)
                                   ELSE @]
    /\ UNCHANGED <<adapter, reviewCommentsBuffer, reviewCommentsCache, issueCommentsCache,
                   remote, frames, requests, calls, text>>

\* octokit.pulls.update / MergeRequests.edit
PullsUpdate(ok) ==
    /\ sub.pc = "pulls.update"
    /\ log' = Append(log, [op |-> "pulls.update", ok |-> ok, id |-> sub.mr, body |-> sub.body])
    /\ remote' = IF ok THEN [remote EXCEPT !.description[sub.mr] = sub.body] ELSE remote
    /\ sub' = [sub EXCEPT !.pc = After("pulls.update", ok, "returned", "returned")]
    /\ UNCHANGED <<adapter, reviewCommentsBuffer, reviewCommentsCache, issueCommentsCache,
                   frames, requests, calls, text>>

\* `${COMMENT_GREETING}\n\n${message}\n\n${COMMENT_REPLY_TAG}\n`
ReplyBody(message) == COMMENT_GREETING \o NL \o NL \o message \o NL \o NL \o COMMENT_REPLY_TAG \o NL

\* String.prototype.replace with a string pattern: the first occurrence only
ReplaceFirst(s, t, by) ==
    LET at == IndexOf(s, t)
    IN  IF at = -1 THEN s ELSE Substring(s, 0, at) \o by \o SubstringFrom(s, at + Len(t))

\* reviewCommentReply up to its first await
reviewCommentReply(mrNumber, topLevelComment, message) ==
    /\ sub.pc \in {"idle", "returned"}
    /\ calls < MaxWrites
    /\ calls' = calls + 1
    /\ log' = <<>>
    /\ sub' = [IdleWrite EXCEPT
                  !.pc = IF adapter = "github" THEN "createReply" ELSE "discussions.all",
                  !.op = "reviewCommentReply", !.mr = mrNumber,
                  !.body = ReplyBody(message), !.top = <<topLevelComment>>,
                  !.before = remote.reviewComments[mrNumber]]
    /\ UNCHANGED <<adapter, reviewCommentsBuffer, reviewCommentsCache, issueCommentsCache,
                   remote, frames, requests, text>>

\* the review comment a reply call adds to the thread of `top`
ReplyComment(id, top, body) == RawComment(id, top.path, top.startLine, top.line, body, "")

\* GitHub: the update of the top-level comment follows when it carries COMMENT_TAG
AfterReply(s) ==
    IF Includes(s.top[1].body, COMMENT_TAG) THEN "updateReviewComment" ELSE "returned"

\* octokit.pulls.createReplyForReviewComment with the reply
CreateReply(ok) ==
    /\ sub.pc = "createReply"
    /\ ok => Exists(remote.reviewComments[sub.mr], sub.top[1].id)
    /\ log' = Append(log, [op |-> "createReply", ok |-> ok, id |-> sub.top[1].id,
                           body |-> sub.body])
    /\ remote' = IF ok THEN [remote EXCEPT
                                 !.reviewComments[sub.mr] =
                                     Append(@, ReplyComment(remote.nextId, sub.top[1], sub.body)),
                                 !.nextId = @ + 1]
                 ELSE remote
    /\ sub' = [sub EXCEPT !.pc = After("createReply", ok, AfterReply(sub), "createReplyError"),
                          !.error = ~ok]
    /\ UNCHANGED <<adapter, reviewCommentsBuffer, reviewCommentsCache, issueCommentsCache,
                   frames, requests, calls, text>>

ERROR_REPLY == <<"Could not post the reply due to error: ">>

\* the catch block: a second reply that reports the error, in its own try
CreateReplyError(ok) ==
    /\ sub.pc = "createReplyError"
    /\ ok => Exists(remote.reviewComments[sub.mr], sub.top[1].id)
    /\ log' = Append(log, [op |-> "createReplyError", ok |-> ok, id |-> sub.top[1].id,
                           body |-> ERROR_REPLY])
    /\ remote' = IF ok THEN [remote EXCEPT
                                 !.reviewComments[sub.mr] =
                                     Append(@, ReplyComment(remote.nextId, sub.top[1], ERROR_REPLY)),
                                 !.nextId = @ + 1]
                 ELSE remote
    /\ sub' = [sub EXCEPT !.pc = After("createReplyError", ok, AfterReply(sub), AfterReply(sub))]
    /\ UNCHANGED <<adapter, reviewCommentsBuffer, reviewCommentsCache, issueCommentsCache,
                   frames, requests, calls, text>>

\* octokit.pulls.updateReviewComment: COMMENT_TAG becomes COMMENT_REPLY_TAG
UpdateReviewComment(ok) ==
    /\ sub.pc = "updateReviewComment"
    /\ ok => Exists(remote.reviewComments[sub.mr], sub.top[1].id)
    /\ LET newBody == ReplaceFirst(sub.top[1].body, COMMENT_TAG, COMMENT_REPLY_TAG)
       IN  /\ log' = Append(log, [op |-> "updateReviewComment", ok |-> ok,
                                  id |-> sub.top[1].id, body |-> newBody])
           /\ remote' = IF ok THEN [remote EXCEPT !.reviewComments[sub.mr] =
                                        WithBody(@, sub.top[1].id, newBody)]
                        ELSE remote
    /\ sub' = [sub EXCEPT !.pc = After("updateReviewComment", ok, "returned", "returned")]
    /\ UNCHANGED <<adapter, reviewCommentsBuffer, reviewCommentsCache, issueCommentsCache,
                   frames, requests, calls, text>>

\* GitLab: MergeRequestDiscussions.all, then the search for the note
DiscussionsAll(ok) ==
    /\ sub.pc = "discussions.all"
    /\ log' = Append(log, [op |-> "discussions.all", ok |-> ok, id |-> sub.mr, body |-> <<>>])
    /\ sub' = [sub EXCEPT !.pc =
                  After("discussions.all", ok,
                        IF Exists(remote.reviewComments[sub.mr], sub.top[1].id)
                        THEN "addNote" ELSE "createReplyNote",
                        "returned")]
    /\ UNCHANGED <<adapter, reviewCommentsBuffer, reviewCommentsCache, issueCommentsCache,
                   remote, frames, requests, calls, text>>

\* GitLab: MergeRequestDiscussions.addNote on the discussion found, then return
AddNote(ok) ==
    /\ sub.pc = "addNote"
    /\ ok => Exists(remote.reviewComments[sub.mr], sub.top[1].id)
    /\ log' = Append(log, [op |-> "addNote", ok |-> ok, id |-> sub.top[1].id,
                           body |-> sub.body])
    /\ remote' = IF ok THEN [remote EXCEPT
                                 !.reviewComments[sub.mr] =
                                     Append(@, ReplyComment(remote.nextId, sub.top[1], sub.body)),
                                 !.nextId = @ + 1]
                 ELSE remote
    /\ sub' = [sub EXCEPT !.pc = After("addNote", ok, "returned", "returned")]
    /\ UNCHANGED <<adapter, reviewCommentsBuffer, reviewCommentsCache, issueCommentsCache,
                   frames, requests, calls, text>>

\* GitLab: no discussion holds the note: the reply becomes a plain note
CreateReplyNote(ok) ==
    /\ sub.pc = "createReplyNote"
    /\ log' = Append(log, [op |-> "createReplyNote", ok |-> ok, id |-> remote.nextId,
                           body |-> sub.body])
    /\ remote' = IF ok THEN [remote EXCEPT
                                 !.issueComments[sub.mr] = Append(@, NewComment(remote.nextId, sub.body)),
                                 !.nextId = @ + 1]
                 ELSE remote
    /\ sub' = [sub EXCEPT !.pc = After("createReplyNote", ok, "returned", "returned")]
    /\ UNCHANGED <<adapter, reviewCommentsBuffer, reviewCommentsCache, issueCommentsCache,
                   frames, requests, calls, text>>

(***************************************************************************)
(* SpecWrites: the write operations of one commenter, one after another,   *)
(* every platform call succeeding or failing                               *)
(***************************************************************************)
WriteMRs == {1}
WriteMessages == {<<"m">>}
Summary(id, meta) ==
    RawComment(id, "", 0, 0, CommentBody(<<"old">>, SUMMARIZE_TAG), meta)
Human(id) == RawComment(id, "", 0, 0, <<"human">>, "")

\* the top-level comments the merge request has at the start; a GitLab
\* system note is never returned by listComments
InitialIssueComments ==
    {<<>>,
     <<Human(11), Summary(12, ""), Summary(13, "")>>,
     <<Summary(11, "system"), Human(12)>>}

InitialDescriptions == {<<>>, <<"text">> \o NL \o DESCRIPTION_START_TAG \o <<"old">> \o DESCRIPTION_END_TAG}

\* the review comments at the start: one the tool wrote, one a human wrote
WriteReviewComments == <<Tagged(1, "a", 0, 2), Plain(2, "a", 0, 2)>>

\* the comment a caller passes as topLevelComment: one the platform has, or
\* one deleted since it was listed
TopLevelComments == {WriteReviewComments[1], WriteReviewComments[2], Tagged(9, "a", 0, 2)}

InitWrites ==
    /\ adapter \in {"github", "gitlab"}
    /\ \E ic \in InitialIssueComments, d \in InitialDescriptions :
           /\ adapter = "github" => \A k \in 1..Len(ic) : ic[k].meta = ""
           /\ remote = [NoRemote EXCEPT
                           !.issueComments = [mr \in MRs |-> IF mr \in WriteMRs THEN ic ELSE <<>>],
                           !.reviewComments = [mr \in MRs |->
                               IF mr \in WriteMRs THEN WriteReviewComments ELSE <<>>],
                           !.description = [mr \in MRs |-> IF mr \in WriteMRs THEN d ELSE <<>>],
                           !.nextId = 20]
    /\ reviewCommentsBuffer = <<>>
    /\ reviewCommentsCache = NoCache
    /\ issueCommentsCache = NoCache
    /\ frames = [c \in Callers |-> IdleFrame]
    /\ requests = 0
    /\ sub = IdleWrite
    /\ log = <<>>
    /\ calls = 0
    /\ text = NoText

\* bufferReviewComment and submitReview as in Spec, within the same bound
NextWrites ==
    \/ \E mrNumber \in ContextMRs, message \in WriteMessages, tag \in CommentTags,
          mode \in CommentModes : comment(mrNumber, message, tag, mode)
    \/ \E ok \in BOOLEAN : sub.pc = "find" /\ ListResponse(1, ok)
    \/ FoundCommentWithTag
    \/ \E ok \in BOOLEAN : UpdateComment(ok)
    \/ \E ok \in BOOLEAN : CreateComment(ok)
    \/ \E mrNumber \in WriteMRs, message \in ReleaseNotes : updateDescription(mrNumber, message)
    \/ \E ok \in BOOLEAN : PullsGet(ok)
    \/ \E ok \in BOOLEAN : PullsUpdate(ok)
    \/ \E mrNumber \in WriteMRs, top \in TopLevelComments, message \in WriteMessages :
           reviewCommentReply(mrNumber, top, message)
    \/ \E ok \in BOOLEAN : CreateReply(ok)
    \/ \E ok \in BOOLEAN : CreateReplyError(ok)
    \/ \E ok \in BOOLEAN : UpdateReviewComment(ok)
    \/ \E ok \in BOOLEAN : DiscussionsAll(ok)
    \/ \E ok \in BOOLEAN : AddNote(ok)
    \/ \E ok \in BOOLEAN : CreateReplyNote(ok)
    \/ \E path \in Paths, range \in Ranges, message \in Messages :
           calls < MaxWrites /\ bufferReviewComment(path, range[1], range[2], message)
    \/ \E mrNumber \in SubmitMRs, commitId \in CommitShas, statusMsg \in StatusMsgs :
           calls < MaxWrites /\ submitReview(mrNumber, commitId, statusMsg)
    \/ \E ok \in BOOLEAN : EmptyReview(ok)
    \/ QueryRange
    \/ \E ok \in BOOLEAN : sub.pc = "list" /\ ListResponse(1, ok)
    \/ RangeQueried
    \/ \E ok \in BOOLEAN : DeleteReviewComment(ok)
    \/ \E ok \in BOOLEAN : ListReviews(ok)
    \/ \E ok \in BOOLEAN : DeletePendingReview(ok)
    \/ \E ok \in BOOLEAN : CreateReview(ok)
    \/ \E ok \in BOOLEAN : SubmitPendingReview(ok)
    \/ \E ok \in BOOLEAN : CreateReviewComment(ok)
    \/ \E ok \in BOOLEAN : GetBaseSha(ok)
    \/ \E ok \in BOOLEAN : CreateDiscussion(ok)
    \/ \E ok \in BOOLEAN : CreateFallbackNote(ok)

SpecWrites == InitWrites /\ [][NextWrites]_vars

(***************************************************************************)
(* Properties of comment, updateDescription, reviewCommentReply            *)
(***************************************************************************)
\* an operation of this section has returned (sub is its activation record)
WriteReturned(op) == sub.pc = "returned" /\ "op" \in DOMAIN sub /\ sub.op = op

\* position k is the first comment of list whose body contains tag
FirstTagged(list, tag, k) ==
    /\ k \in 1..Len(list)
    /\ Includes(list[k].body, tag)
    /\ \A j \in 1..(k - 1) : ~Includes(list[j].body, tag)

NoneTagged(list, tag) == \A k \in 1..Len(list) : ~Includes(list[k].body, tag)

\* the one call made is a create call with the new body; if it succeeded
\* the merge request has exactly that comment more
OneCreate ==
    /\ Len(log) = 1
    /\ log[1].op = "createComment"
    /\ log[1].body = sub.body
    /\ remote.issueComments[sub.mr] =
           IF log[1].ok THEN Append(sub.before, NewComment(log[1].id, sub.body))
           ELSE sub.before

\* the one call made is an update of comment list[k] with the new body; if
\* it succeeded only the body of that comment changed
OneUpdate(k) ==
    /\ Len(log) = 1
    /\ log[1].op = "updateComment"
    /\ log[1].id = sub.listed[k].id
    /\ log[1].body = sub.body
    /\ remote.issueComments[sub.mr] =
           IF log[1].ok THEN WithBody(sub.before, sub.listed[k].id, sub.body)
           ELSE sub.before

C24_WritesNeverRaise ==
    /\ sub.pc # "raised"
    /\ sub.pc \notin {"idle", "returned"} => ENABLED NextWrites
    /\ sub.pc = "returned" /\ calls < MaxWrites =>
           ENABLED (\E mrNumber \in WriteMRs, message \in ReleaseNotes :
                       updateDescription(mrNumber, message))

\* reviewCommentReply on GitHub returned although its three calls failed
C24_Witness ==
    /\ WriteReturned("reviewCommentReply")
    /\ Len(log) = 3
    /\ \A k \in 1..3 : ~log[k].ok

(***************************************************************************)
(* getAllCommitIds and the client's listCommits                            *)
(*                                                                         *)
(* frames[c] with kind "commits" is the activation record of listCommits;  *)
(* pc = "raised" is the rejection of the promise getAllCommitIds returns.  *)
(***************************************************************************)
Commit(i) == [sha |-> ToString(i)]
Commits(n) == [i \in 1..n |-> Commit(i)]

\* `commits.map(c => c.sha)`
Shas(commits) == [i \in 1..Len(commits) |-> commits[i].sha]

\* getAllCommitIds up to its first await: [] without a merge request number,
\* else the first request of client.listCommits
getAllCommitIds(c, mrNumber) ==
    /\ frames[c].pc \in {"idle", "done", "raised"}
    /\ calls < MaxCalls
    /\ calls' = calls + 1
    /\ IF mrNumber = 0
       THEN /\ frames' = [frames EXCEPT ![c] =
                   [IdleFrame EXCEPT !.pc = "done", !.kind = "commits"]]
            /\ UNCHANGED requests
       ELSE /\ frames' = [frames EXCEPT ![c] =
                   [IdleFrame EXCEPT !.pc = "await", !.kind = "commits", !.mr = mrNumber,
                                     !.page = 1, !.reqs = 1]]
            /\ requests' = requests + 1
    /\ UNCHANGED <<adapter, reviewCommentsBuffer, reviewCommentsCache, issueCommentsCache,
                   remote, sub, log, text>>

\* listCommits from a response to its next request or its return; a
\* rejected request is not caught (GitHub) or is logged and thrown again
\* (GitLab), and getAllCommitIds does not catch it either
ListCommitsResume(c, ok) ==
    LET f == frames[c]
        items == ResponseItems(remote.commits[f.mr], f.page)
    IN  /\ f.pc = "await"
        /\ f.kind = "commits"
        /\ IF ~ok
           THEN /\ frames' = [frames EXCEPT ![c] = [f EXCEPT !.pc = "raised", !.failed = TRUE]]
                /\ UNCHANGED requests
           ELSE IF adapter = "gitlab"
           THEN /\ frames' = [frames EXCEPT ![c] =
                       [f EXCEPT !.pc = "done", !.all = items, !.result = Shas(items)]]
                /\ UNCHANGED requests
           ELSE IF Len(items) = 0
           THEN \* `if (response.data.length === 0) break`
                /\ frames' = [frames EXCEPT ![c] =
                       [f EXCEPT !.pc = "done", !.result = Shas(f.all)]]
                /\ UNCHANGED requests
           ELSE /\ frames' = [frames EXCEPT ![c] =
                       [f EXCEPT !.all = f.all \o items, !.page = f.page + 1,
                                 !.reqs = f.reqs + 1]]
                /\ requests' = requests + 1
        /\ UNCHANGED <<adapter, reviewCommentsBuffer, reviewCommentsCache,
                       issueCommentsCache, remote, sub, log, calls, text>>

(***************************************************************************)
(* SpecReads: the paginated reads of one commenter                         *)
(***************************************************************************)
ReadCallers == {1}
ReadMRs == {1}

InitReads ==
    /\ adapter \in {"github", "gitlab"}
    /\ \E n \in Sizes, m \in Sizes :
           remote = [NoRemote EXCEPT
                        !.reviewComments = [mr \in MRs |->
                            IF mr \in ReadMRs THEN Generated("review", mr, n) ELSE <<>>],
                        !.issueComments = [mr \in MRs |->
                            IF mr \in ReadMRs THEN Generated("issue", mr, n) ELSE <<>>],
                        !.commits = [mr \in MRs |->
                            IF mr \in ReadMRs THEN Commits(m) ELSE <<>>]]
    /\ reviewCommentsCache = NoCache
    /\ issueCommentsCache = NoCache
    /\ frames = [c \in Callers |-> IdleFrame]
    /\ requests = 0
    /\ reviewCommentsBuffer = <<>>
    /\ sub = IdleSub
    /\ log = <<>>
    /\ calls = 0
    /\ text = NoText

NextReads ==
    \/ \E c \in ReadCallers, kind \in Kinds, mr \in ReadMRs :
           frames[c].pc \in {"idle", "done", "raised"} /\ ListCall(c, kind, mr)
    \/ \E c \in ReadCallers, ok \in BOOLEAN : frames[c].kind # "commits" /\ ListResponse(c, ok)
    \/ \E c \in ReadCallers, mrNumber \in ReadMRs \cup {0} : getAllCommitIds(c, mrNumber)
    \/ \E c \in ReadCallers, ok \in BOOLEAN : ListCommitsResume(c, ok)

SpecReads == InitReads /\ [][NextReads]_vars

\* the items of pages 1..k of list
Pages(list, k) == SubSeq(list, 1, Min(k * PER_PAGE, Len(list)))

\* C25: a failure while fetching page k > 1 of listComments,
\* listReviewComments or the commit listing behind getAllCommitIds makes the
\* call return the items of pages 1..k-1 and raise nothing.
C25_PartialResultOnFailure ==
    \A c \in ReadCallers :
        LET f == frames[c]
        IN  f.failed /\ f.page > 1 =>
                /\ f.pc = "done"
                /\ f.result =
                       IF f.kind = "commits" THEN Shas(Pages(remote.commits[f.mr], f.page - 1))
                       ELSE Mapped(f.kind, Pages(RemoteList(f.kind, f.mr), f.page - 1))

(***************************************************************************)
(* createOctokit: the throttle handler onSecondaryRateLimit                *)
(*                                                                         *)
(* A URL is the sequence of its "/" characters and path segments.          *)
(***************************************************************************)
\* t occurs in s at position p (1-based)
MatchAt(s, t, p) == p + Len(t) - 1 <= Len(s) /\ SubSeq(s, p, p + Len(t) - 1) = t

\* (mutant of MatchesReviews) the pattern without its last part
MatchesPulls(url) ==
    \E a, b, c \in 1..Len(url) :
        /\ MatchAt(url, <<"/", "repos", "/">>, a)
        /\ b >= a + 3 /\ url[b] = "/"
        /\ c > b /\ MatchAt(url, <<"/", "pulls", "/">>, c)

\* options.url.match(/\/repos\/.*\/.*\/pulls\/.*\/reviews/): unanchored,
\* each .* any run of characters
MatchesReviews(url) ==
    \E a, b, c, d \in 1..Len(url) :
        /\ MatchAt(url, <<"/", "repos", "/">>, a)
        /\ b >= a + 3 /\ url[b] = "/"
        /\ c > b /\ MatchAt(url, <<"/", "pulls", "/">>, c)
        /\ d >= c + 3 /\ MatchAt(url, <<"/", "reviews">>, d)

\* TRUE: send the request again; FALSE: give up
onSecondaryRateLimit(method, url) == ~(method = "POST" /\ MatchesReviews(url))

\* "/" + segments joined by "/"
UrlOf(segments) == Concat([i \in 1..Len(segments) |-> <<"/", segments[i]>>])

Methods == {"GET", "POST", "PATCH", "DELETE"}
Owners == {"o", "repos", "{owner}"}
Repos == {"r", "pulls", "reviews"}
\* the routes of the calls the commenter and the client make, after /repos/{owner}/{repo}
Routes ==
    {<<"issues", "1", "comments">>, <<"issues", "comments", "7">>,
     <<"pulls", "1">>, <<"pulls", "1", "commits">>,
     <<"pulls", "1", "comments">>, <<"pulls", "comments", "7">>,
     <<"pulls", "1", "comments", "7", "replies">>,
     <<"pulls", "1", "reviews">>, <<"pulls", "1", "reviews", "7">>,
     <<"pulls", "1", "reviews", "7", "events">>}
Urls == {UrlOf(<<"repos", owner, repo>> \o route) : owner \in Owners, repo \in Repos, route \in Routes}

InitThrottle ==
    /\ adapter = "github"
    /\ remote = NoRemote
    /\ reviewCommentsBuffer = <<>>
    /\ reviewCommentsCache = NoCache
    /\ issueCommentsCache = NoCache
    /\ frames = [c \in Callers |-> IdleFrame]
    /\ requests = 0
    /\ sub = IdleSub
    /\ log = <<>>
    /\ calls = 0
    /\ text = NoText

throttleVars == <<adapter, reviewCommentsBuffer, reviewCommentsCache, issueCommentsCache,
                  remote, frames, sub, log, calls>>

\* one call of an octokit method: its request is sent
SendRequest(method, url) ==
    /\ text.op = "none"
    /\ text' = [op |-> "sent", body |-> url, arg |-> method, out |-> <<>>, n |-> 1]
    /\ requests' = 1
    /\ UNCHANGED throttleVars

\* the response is a secondary rate limit: the handler decides whether the
\* request is sent again
SecondaryRateLimit ==
    /\ text.op = "sent"
    /\ text.n <= MaxRetries
    /\ IF onSecondaryRateLimit(text.arg, text.body)
       THEN /\ text' = [text EXCEPT !.n = @ + 1]
            /\ requests' = requests + 1
       ELSE /\ text' = [text EXCEPT !.op = "rejected"]
            /\ UNCHANGED requests
    /\ UNCHANGED throttleVars

\* any other response ends the call
Response ==
    /\ text.op = "sent"
    /\ text' = [text EXCEPT !.op = "resolved"]
    /\ UNCHANGED requests
    /\ UNCHANGED throttleVars

NextThrottle ==
    \/ \E method \in Methods, url \in Urls : SendRequest(method, url)
    \/ SecondaryRateLimit
    \/ Response

SpecThrottle == InitThrottle /\ [][NextThrottle]_vars

\* url is /repos/{owner}/{repo}/pulls/{n}/reviews, alone or followed by more
\* (review creation; review submission has /{id}/events after it)
IsReviewsUrl(url) ==
    /\ Len(url) >= 12
    /\ \A i \in {1, 3, 5, 7, 9, 11} : url[i] = "/"
    /\ url[2] = "repos"
    /\ url[8] = "pulls"
    /\ url[12] = "reviews"

\* C26: onSecondaryRateLimit answers "do not retry" exactly for the POST
\* requests on /repos/{owner}/{repo}/pulls/{n}/reviews (review creation and
\* review submission) and "retry" for every other request, so under
\* secondary rate limits such a request is sent at most once and every
\* other request is never given up.
C26_ReviewPostsNeverRetried ==
    text.op \in {"sent", "rejected", "resolved"} =>
        LET review == text.arg = "POST" /\ IsReviewsUrl(text.body)
        IN  /\ onSecondaryRateLimit(text.arg, text.body) = ~review
            /\ review => text.n = 1 /\ requests = 1
            /\ text.op = "rejected" => review

\* a review submission was rate limited and given up after its one request
C26_Witness ==
    /\ text.op = "rejected"
    /\ text.arg = "POST"
    /\ text.body = UrlOf(<<"repos", "o", "r", "pulls", "1", "reviews", "7", "events">>)
    /\ requests = 1

(***************************************************************************)
(* Pagination of listComments / listReviewComments (SpecList)              *)
(***************************************************************************)
\* C27: on GitHub a fetch of listComments / listReviewComments requests the
\* pages 1, 2, 3, ... of 100 items, goes on exactly while the page received
\* is full and stops after the first shorter one: while it waits for page p
\* it has made p requests and holds the p-1 full pages before it, p is at
\* most floor(n/100)+1, and a fetch that ends without a failure has made
\* floor(n/100)+1 requests and returns all n comments in platform order.
C27_PaginationRule ==
    \A c \in Callers :
        LET f == frames[c]
            list == RemoteList(f.kind, f.mr)
        IN  adapter = "github" /\ f.pc \in {"await", "done"} /\ ~f.hit =>
                /\ f.pc = "await" =>
                       /\ f.reqs = f.page
                       /\ f.page <= (Len(list) \div PER_PAGE) + 1
                       /\ Len(f.all) = (f.page - 1) * PER_PAGE
                       /\ f.all = Pages(list, f.page - 1)
                /\ f.pc = "done" /\ ~f.failed =>
                       /\ f.reqs = (Len(list) \div PER_PAGE) + 1
                       /\ f.result = list

\* a fetch of 200 comments ended after three requests, the last page empty
C27_Witness ==
    /\ adapter = "github"
    /\ \E c \in Callers :
           /\ frames[c].pc = "done"
           /\ ~frames[c].failed /\ ~frames[c].hit
           /\ frames[c].reqs = 3
           /\ Len(frames[c].result) = 2 * PER_PAGE

(***************************************************************************)
(* Frame of bufferReviewComment (Spec)                                     *)
(***************************************************************************)
\* the step is a call of bufferReviewComment
BufferStep == calls' = calls + 1 /\ sub' = IdleSub

C28_Legal ==
    sub.pc \in {"idle", "returned"} /\ calls < MaxOps =>
        \A path \in Paths, range \in Ranges, message \in Messages :
            ENABLED bufferReviewComment(path, range[1], range[2], message)

C28_Step ==
    /\ BufferStep =>
           /\ Len(reviewCommentsBuffer') = Len(reviewCommentsBuffer) + 1
           /\ SubSeq(reviewCommentsBuffer', 1, Len(reviewCommentsBuffer)) = reviewCommentsBuffer
           /\ \E path \in Paths, range \in Ranges, message \in Messages :
                  reviewCommentsBuffer'[Len(reviewCommentsBuffer')] =
                      [path |-> path, startLine |-> range[1], endLine |-> range[2],
                       message |-> FormattedMessage(message)]
           /\ remote' = remote
           /\ requests' = requests
           /\ frames' = frames
           /\ log' = <<>>
           /\ reviewCommentsCache' = reviewCommentsCache
           /\ issueCommentsCache' = issueCommentsCache
    /\ ~BufferStep /\ reviewCommentsBuffer' # reviewCommentsBuffer =>
           /\ sub.pc \notin {"idle", "returned"}
           /\ sub'.pc = "returned"
           /\ reviewCommentsBuffer' = <<>>

\* C28: bufferReviewComment can be called whenever no submitReview is
\* running, with the buffer empty or not; each call appends exactly one
\* entry at the end, leaves the earlier entries and their order as they
\* were, makes no platform call and touches no cache; the only other steps
\* that change the buffer are steps of submitReview, which empty it.
C28_BufferAppendsOnly == []C28_Legal /\ [][C28_Step]_vars

\* two different entries buffered one after the other, after a submitReview
C28_Witness ==
    /\ sub = IdleSub
    /\ Len(reviewCommentsBuffer) = 2
    /\ reviewCommentsBuffer[1].startLine = 1
    /\ reviewCommentsBuffer[2].startLine = 2
    /\ calls > 2

(***************************************************************************)
(* GitLab submitReview with buffered comments (Spec)                       *)
(***************************************************************************)
\* the fallback notes of a submitReview that had buffered entries
FallbackNotes == IF sub.buf = <<>> THEN {} ELSE IndicesOf("createNote")

\* C29: GitLab submitReview with a non-empty buffer attempts, for each entry
\* in buffer order, one diff discussion with the entry's message at line
\* endLine of the entry's path and head commitId; the plain note naming the
\* path and the lines startLine-endLine is attempted only, and always,
\* right after the discussion of the same entry raised; whatever fails,
\* every entry has had its discussion attempted when submitReview returns,
\* and no entry has both a discussion and a note posted.
C29_GitLabPostsEveryEntry ==
    adapter = "gitlab" =>
        LET discussions == IndicesOf("createDiscussion")
        IN  /\ \A k \in discussions :
                   LET entry == sub.buf[log[k].i]
                   IN  /\ log[k].body = entry.message
                       /\ log[k].position.newPath = entry.path
                       /\ log[k].position.newLine = entry.endLine
                       /\ log[k].position.headSha = sub.commitId
                       /\ ~log[k].ok /\ k < Len(log) =>
                              log[k + 1].op = "createNote" /\ log[k + 1].i = log[k].i
                       /\ ~log[k].ok /\ k = Len(log) => sub.pc = "note"
            /\ \A k1, k2 \in discussions : k1 < k2 => log[k1].i < log[k2].i
            /\ \A n \in FallbackNotes :
                   LET entry == sub.buf[log[n].i]
                   IN  /\ n - 1 \in discussions
                       /\ log[n - 1].i = log[n].i
                       /\ ~log[n - 1].ok
                       /\ log[n].body[2] = entry.path
                       /\ log[n].body[7] = ToString(entry.startLine)
                       /\ log[n].body[9] = ToString(entry.endLine)
                       /\ SubSeq(log[n].body, Len(log[n].body) - Len(entry.message) + 1,
                                 Len(log[n].body)) = entry.message
            /\ Returned /\ sub.buf # <<>> =>
                   {log[k].i : k \in discussions} = 1..Len(sub.buf)

\* both attempts for the first of two entries failed, the discussion for
\* the second one was posted
C29_Witness ==
    /\ adapter = "gitlab"
    /\ Returned
    /\ Len(sub.buf) = 2
    /\ \E k \in IndicesOf("createDiscussion") :
           /\ log[k].i = 1 /\ ~log[k].ok
           /\ log[k + 1].op = "createNote" /\ ~log[k + 1].ok
    /\ \E k \in IndicesOf("createDiscussion") : log[k].i = 2 /\ log[k].ok

(***************************************************************************)
(* Platform factory: detectPlatform, createPlatform                        *)
(*                                                                         *)
(* Here a string is the sequence of its characters, an environment         *)
(* variable or a config key is Unset (undefined) or Val(string).           *)
(***************************************************************************)
Unset == [set |-> FALSE, value |-> <<>>]
Val(s) == [set |-> TRUE, value |-> s]

\* (mutant of LowerChar) every character is kept
SameChar(ch) == ch

\* String.prototype.toLowerCase on one character (the letters used here)
LowerChar(ch) ==
    CASE ch = "G" -> "g" [] ch = "I" -> "i" [] ch = "T" -> "t" [] ch = "H" -> "h"
      [] ch = "U" -> "u" [] ch = "B" -> "b" [] ch = "L" -> "l" [] ch = "A" -> "a"
      [] ch = "R" -> "r" [] ch = "E" -> "e"
      [] OTHER -> ch

toLowerCase(s) == [i \in 1..Len(s) |-> LowerChar(s[i])]

github == <<"g", "i", "t", "h", "u", "b">>
gitlab == <<"g", "i", "t", "l", "a", "b">>
true == <<"t", "r", "u", "e">>

\* the PlatformType returned, or "null"
detectPlatform(env) ==
    LET explicitPlatform == IF env.PLATFORM.set THEN Val(toLowerCase(env.PLATFORM.value))
                            ELSE Unset
    IN  IF explicitPlatform = Val(github) THEN "github"
        ELSE IF explicitPlatform = Val(gitlab) THEN "gitlab"
        ELSE IF env.GITHUB_ACTIONS = Val(true) THEN "github"
        ELSE IF env.GITLAB_CI = Val(true) THEN "gitlab"
        ELSE "null"

\* getPlatformConfig(platformType).token: `process.env.X_TOKEN || ''`
EnvToken(env, platformType) ==
    LET v == IF platformType = "github" THEN env.GITHUB_TOKEN ELSE env.GITLAB_TOKEN
    IN  IF v.set THEN v.value ELSE <<>>

CreatedNothing == [error |-> "", type |-> "null"]

\* createPlatform: the error thrown, or the type of the platform returned
createPlatform(config, env) ==
    LET platformType == IF config.platform.set THEN config.platform.value
                        ELSE detectPlatform(env)
        token == IF config.token.set THEN config.token.value
                 ELSE EnvToken(env, platformType)
    IN  IF platformType = "null" THEN [CreatedNothing EXCEPT !.error = "Unable to detect platform"]
        ELSE IF token = <<>>
        THEN [CreatedNothing EXCEPT !.error = "Missing authentication token"]
        ELSE [CreatedNothing EXCEPT !.type = platformType]

PlatformValues ==
    {Unset, Val(<<>>), Val(github), Val(gitlab),
     Val(<<"G", "I", "T", "H", "U", "B">>), Val(<<"G", "i", "t", "L", "a", "b">>),
     Val(<<"g", "i", "t">>), Val(github \o <<" ">>)}
FlagValues == {Unset, Val(true), Val(<<"T", "R", "U", "E">>), Val(<<"1">>)}
TokenValues == {Unset, Val(<<"k">>)}

Envs ==
    [PLATFORM : PlatformValues, GITHUB_ACTIONS : FlagValues, GITLAB_CI : FlagValues,
     GITHUB_TOKEN : TokenValues, GITLAB_TOKEN : TokenValues]

\* Partial<PlatformConfig>: platform absent or a PlatformType, token absent,
\* empty or given
Configs ==
    [platform : {Unset, Val("github"), Val("gitlab")},
     token : {Unset, Val(<<>>), Val(<<"k">>)}]

InitPlatform ==
    /\ adapter = "github"
    /\ remote = NoRemote
    /\ reviewCommentsBuffer = <<>>
    /\ reviewCommentsCache = NoCache
    /\ issueCommentsCache = NoCache
    /\ frames = [c \in Callers |-> IdleFrame]
    /\ requests = 0
    /\ sub = IdleSub
    /\ log = <<>>
    /\ calls = 0
    /\ \E env \in Envs :
           text = [op |-> "env", body |-> env, arg |-> Unset, out |-> CreatedNothing, n |-> 0]

platformVars == <<adapter, reviewCommentsBuffer, reviewCommentsCache, issueCommentsCache,
                  remote, frames, requests, sub, log, calls>>

DetectPlatform ==
    /\ text.op = "env"
    /\ text' = [text EXCEPT !.op = "detectPlatform",
                            !.out = [CreatedNothing EXCEPT !.type = detectPlatform(text.body)],
                            !.n = 1]
    /\ UNCHANGED platformVars

CreatePlatform(config) ==
    /\ text.op = "env"
    /\ text' = [text EXCEPT !.op = "createPlatform", !.arg = config,
                            !.out = createPlatform(config, text.body), !.n = 1]
    /\ UNCHANGED platformVars

NextPlatform ==
    \/ DetectPlatform
    \/ \E config \in Configs : CreatePlatform(config)

SpecPlatform == InitPlatform /\ [][NextPlatform]_vars

\* the capital of a small letter; anything else has none
UpperOf(ch) ==
    CASE ch = "g" -> "G" [] ch = "i" -> "I" [] ch = "t" -> "T" [] ch = "h" -> "H"
      [] ch = "u" -> "U" [] ch = "b" -> "B" [] ch = "l" -> "L" [] ch = "a" -> "A"
      [] OTHER -> ch

\* v is set to name, in any mix of capitals and small letters
Names(v, name) ==
    /\ v.set
    /\ Len(v.value) = Len(name)
    /\ \A i \in 1..Len(name) : v.value[i] \in {name[i], UpperOf(name[i])}

\* the decision the claim describes
Priority(env) ==
    IF Names(env.PLATFORM, github) THEN "github"
    ELSE IF Names(env.PLATFORM, gitlab) THEN "gitlab"
    ELSE IF env.GITHUB_ACTIONS = Val(true) THEN "github"
    ELSE IF env.GITLAB_CI = Val(true) THEN "gitlab"
    ELSE "null"

\* C30: detectPlatform returns PLATFORM when, compared case-insensitively,
\* it is 'github' or 'gitlab', whatever the CI variables; otherwise 'github'
\* if GITHUB_ACTIONS is 'true'; otherwise 'gitlab' if GITLAB_CI is 'true';
\* otherwise null.  createPlatform raises and returns no platform when that
\* result is null and its config gives no platform; a config platform, or
\* else the detected one, is the only type it ever returns.
C30_PlatformPriority ==
    /\ text.op = "detectPlatform" => text.out.type = Priority(text.body)
    /\ text.op = "createPlatform" =>
           /\ ~text.arg.platform.set /\ Priority(text.body) = "null" =>
                  text.out.error # "" /\ text.out.type = "null"
           /\ text.out.type # "null" =>
                  /\ text.out.error = ""
                  /\ text.out.type = IF text.arg.platform.set THEN text.arg.platform.value
                                     ELSE Priority(text.body)

\* PLATFORM = 'GitLab' wins over GITHUB_ACTIONS = 'true'
C30_Witness ==
    /\ text.op = "detectPlatform"
    /\ text.body.PLATFORM = Val(<<"G", "i", "t", "L", "a", "b">>)
    /\ text.body.GITHUB_ACTIONS = Val(true)
    /\ text.out.type = "gitlab"

(***************************************************************************)
(* GitLabContext: event classification, and getNormalizedEventName         *)
(*                                                                         *)
(* The values of the environment variables are whole strings here.         *)
(***************************************************************************)
\* a JavaScript string used as a condition: undefined and '' are falsy
Truthy(v) == v.set /\ v.value # ""

\* (mutant of eventName) the note test comes first
eventNameNoteFirst(env) ==
    LET pipelineSource == IF Truthy(env.CI_PIPELINE_SOURCE) THEN env.CI_PIPELINE_SOURCE.value
                          ELSE ""
    IN  IF Truthy(env.CI_NOTE_ID) THEN "note"
        ELSE IF pipelineSource = "merge_request_event" THEN "merge_request"
        ELSE pipelineSource

eventName(env) ==
    LET pipelineSource == IF Truthy(env.CI_PIPELINE_SOURCE) THEN env.CI_PIPELINE_SOURCE.value
                          ELSE ""
    IN  IF pipelineSource = "merge_request_event" THEN "merge_request"
        ELSE IF Truthy(env.CI_NOTE_ID) THEN "note"
        ELSE pipelineSource

isMergeRequestEvent(env) == env.CI_PIPELINE_SOURCE = Val("merge_request_event")

isReviewCommentEvent(env) == Truthy(env.CI_NOTE_ID)

getNormalizedEventName(env) ==
    IF isMergeRequestEvent(env) THEN "merge_request"
    ELSE IF isReviewCommentEvent(env) THEN "review_comment"
    ELSE eventName(env)

PipelineSources ==
    {Unset, Val(""), Val("merge_request_event"), Val("merge_request"), Val("push"),
     Val("web"), Val("trigger"), Val("note")}
NoteIds == {Unset, Val(""), Val("0"), Val("12345")}
ContextEnvs == [CI_PIPELINE_SOURCE : PipelineSources, CI_NOTE_ID : NoteIds]
ContextGetters ==
    {"eventName", "isMergeRequestEvent", "isReviewCommentEvent", "getNormalizedEventName"}

NoAnswer == [name |-> "", flag |-> FALSE]

InitContext ==
    /\ adapter = "gitlab"
    /\ remote = NoRemote
    /\ reviewCommentsBuffer = <<>>
    /\ reviewCommentsCache = NoCache
    /\ issueCommentsCache = NoCache
    /\ frames = [c \in Callers |-> IdleFrame]
    /\ requests = 0
    /\ sub = IdleSub
    /\ log = <<>>
    /\ calls = 0
    /\ \E env \in ContextEnvs :
           text = [op |-> "env", body |-> env, arg |-> <<>>, out |-> NoAnswer, n |-> 0]

\* one read of the context: a getter of GitLabContext, or getNormalizedEventName
ContextRead(getter) ==
    /\ text.op = "env"
    /\ text' = [text EXCEPT
                  !.op = getter,
                  !.out = CASE getter = "eventName" -> [NoAnswer EXCEPT !.name = eventName(text.body)]
                            [] getter = "isMergeRequestEvent" ->
                                   [NoAnswer EXCEPT !.flag = isMergeRequestEvent(text.body)]
                            [] getter = "isReviewCommentEvent" ->
                                   [NoAnswer EXCEPT !.flag = isReviewCommentEvent(text.body)]
                            [] getter = "getNormalizedEventName" ->
                                   [NoAnswer EXCEPT !.name = getNormalizedEventName(text.body)],
                  !.n = 1]
    /\ UNCHANGED platformVars

NextContext == \E getter \in ContextGetters : ContextRead(getter)

SpecContext == InitContext /\ [][NextContext]_vars

\* the variable is set, to a value that is not the empty string
IsSet(v) == v \notin {Unset, Val("")}

\* C31: in GitLabContext eventName is 'merge_request' when
\* CI_PIPELINE_SOURCE is 'merge_request_event', even with CI_NOTE_ID set;
\* otherwise 'note' when CI_NOTE_ID is set (to a non-empty value); otherwise
\* the raw pipeline source ('' when there is none).  isMergeRequestEvent()
\* is true exactly for the pipeline source 'merge_request_event',
\* isReviewCommentEvent() exactly when CI_NOTE_ID is set, and
\* getNormalizedEventName answers 'merge_request' before 'review_comment'.
C31_MergeRequestBeforeNote ==
    LET source == text.body.CI_PIPELINE_SOURCE
        note == text.body.CI_NOTE_ID
        isMR == source = Val("merge_request_event")
    IN  /\ text.op = "eventName" =>
               text.out.name = IF isMR THEN "merge_request"
                               ELSE IF IsSet(note) THEN "note"
                               ELSE IF source = Unset THEN "" ELSE source.value
        /\ text.op = "isMergeRequestEvent" => (text.out.flag <=> isMR)
        /\ text.op = "isReviewCommentEvent" => (text.out.flag <=> IsSet(note))
        /\ text.op = "getNormalizedEventName" =>
               /\ isMR => text.out.name = "merge_request"
               /\ ~isMR /\ IsSet(note) => text.out.name = "review_comment"

\* a merge request pipeline that also carries a note id
C31_Witness ==
    /\ text.op = "eventName"
    /\ text.body.CI_PIPELINE_SOURCE = Val("merge_request_event")
    /\ text.body.CI_NOTE_ID = Val("12345")
    /\ text.out.name = "merge_request"

(***************************************************************************)
(* The ledger written and read back (SpecLedger)                           *)
(***************************************************************************)
\* body holds one of the two ledger markers and not the other
LedgerUnpaired(body) ==
    Includes(body, COMMIT_ID_START_TAG) # Includes(body, COMMIT_ID_END_TAG)

\* C32 as stated: for every body that contains exactly one of the two
\* ledger markers, addReviewedCommitId(body, id) appends a fresh ledger
\* region holding id, and getReviewedCommitIds of the result is exactly
\* [id].
C32_UnpairedLedgerReadsBackOneId ==
    AfterAdd /\ LedgerUnpaired(text.body) =>
        /\ text.out = text.body \o FreshLedger(text.arg)
        /\ getReviewedCommitIds(text.out) = <<text.arg>>

\* one start marker followed by one end marker, and no other marker
LedgerWellFormed(body) ==
    /\ Occurrences(body, COMMIT_ID_START_TAG) = 1
    /\ Occurrences(body, COMMIT_ID_END_TAG) = 1
    /\ LedgerPresent(body)

LedgerNone(body) ==
    ~Includes(body, COMMIT_ID_START_TAG) /\ ~Includes(body, COMMIT_ID_END_TAG)

\* the text before the start marker and the text after the end marker
Outside(body) ==
    <<Substring(body, 0, LedgerStart(body)),
      SubstringFrom(body, LedgerEnd(body) + Len(COMMIT_ID_END_TAG))>>

\* C36: for every body with no ledger marker or with a well-formed region
\* (one start marker followed by one end marker),
\* getReviewedCommitIds(addReviewedCommitId(body, id)) is
\* getReviewedCommitIds(body) with id appended as the last element, so the
\* ids appended in turn are read back in append order, and the text outside
\* the region is the text the body had outside it (the whole body, when it
\* had no region).
C36_LedgerRoundTrip ==
    AfterAdd /\ (LedgerNone(text.body) \/ LedgerWellFormed(text.body)) =>
        /\ getReviewedCommitIds(text.out) = Append(getReviewedCommitIds(text.body), text.arg)
        /\ LedgerWellFormed(text.out)
        /\ LedgerWellFormed(text.body) => Outside(text.out) = Outside(text.body)
        /\ LedgerNone(text.body) => Outside(text.out) = <<text.body \o NL, <<>>>>

\* two ids appended in turn to a well-formed, empty region after other text
C36_Witness ==
    /\ AfterAdd
    /\ text.n = 2
    /\ LedgerWellFormed(text.body)
    /\ Outside(text.out) = <<<<"x">>, <<>>>>
    /\ getReviewedCommitIds(text.out) = <<<<"c2">>, <<"c1">>>>

(***************************************************************************)
(* What one submitReview call leaves on the platform (Spec)                *)
(***************************************************************************)
\* the review this call created is still attached to the merge request:
\* submitted, or pending because no later cleanup deleted it
ReviewAttached ==
    \E k \in IndicesOf("createReview") :
        /\ log[k].event = ""
        /\ log[k].ok
        /\ ~\E d \in IndicesOf("deletePendingReview") : d > k /\ log[d].ok

\* this call posted buffered entry i as an individual review comment
PostedAlone(i) ==
    \E k \in IndicesOf("createReviewComment") :
        /\ log[k].i = i
        /\ log[k].ok
        /\ Exists(remote.reviewComments[sub.mr], log[k].id)

\* C33: when a GitHub submitReview call has returned, no buffered entry is
\* attached to the merge request both inside the review the call created
\* (pending or submitted) and as an individually posted comment, whatever
\* platform calls failed.
C33_AtMostOneCommentPerEntry ==
    (Returned /\ adapter = "github" /\ sub.buf # <<>>) =>
        \A i \in 1..Len(sub.buf) : ~(ReviewAttached /\ PostedAlone(i))

\* the exact range a review comment is anchored at: a comment without
\* startLine is the single line `line`
AnchorOf(c) == <<IF c.startLine = 0 THEN c.line ELSE c.startLine, c.line>>

\* C34: every review comment a step of submitReview removes from the merge
\* request carries COMMENT_TAG and is anchored at the exact (path, startLine,
\* endLine) of some buffered entry; a tool comment of lines 1-2 is not removed
\* for an entry buffered at the single line 2.
C34_CleanupDeletesExactRangeOnly ==
    [][\A mr \in DOMAIN remote.reviewComments :
          \A k \in 1..Len(remote.reviewComments[mr]) :
              LET c == remote.reviewComments[mr][k]
              IN  ~Exists(remote'.reviewComments[mr], c.id) =>
                      /\ Includes(c.body, COMMENT_TAG)
                      /\ \E i \in 1..Len(reviewCommentsBuffer) :
                             /\ reviewCommentsBuffer[i].path = c.path
                             /\ <<reviewCommentsBuffer[i].startLine,
                                  reviewCommentsBuffer[i].endLine>> = AnchorOf(c)]_vars

(***************************************************************************)
(* SpecReplace: sequential comment(message, tag, 'replace') calls only     *)
(***************************************************************************)
NextReplace ==
    \/ \E mrNumber \in WriteMRs, message \in WriteMessages, tag \in CommentTags :
           comment(mrNumber, message, tag, "replace")
    \/ \E ok \in BOOLEAN : sub.pc = "find" /\ ListResponse(1, ok)
    \/ FoundCommentWithTag
    \/ \E ok \in BOOLEAN : UpdateComment(ok)
    \/ \E ok \in BOOLEAN : CreateComment(ok)

SpecReplace == InitWrites /\ [][NextReplace]_vars

\* the comments of mr whose body contains tag
WithTag(mr, tag) ==
    {k \in 1..Len(remote.issueComments[mr]) :
        Includes(remote.issueComments[mr][k].body, tag)}

\* the merge request had no comment containing tag when the commenter was
\* created: the comments it had then have ids below 20, and a replace call
\* rewrites a comment only with a body that keeps the tag it was found by
NoneInitially(mr, tag) ==
    \A k \in WithTag(mr, tag) : remote.issueComments[mr][k].id >= 20

\* C35: after any sequence of comment(message, tag, 'replace') calls on a
\* merge request that had no comment containing tag, the platform holds at
\* most one comment containing tag, whatever fetches or writes failed.
C35_ReplaceConvergesToOne ==
    \A mr \in WriteMRs, t \in CommentTags :
        NoneInitially(mr, TagOrDefault(t)) =>
            Cardinality(WithTag(mr, TagOrDefault(t))) <= 1

(***************************************************************************)
(* updateDescription applied twice (SpecCodec)                             *)
(***************************************************************************)
C37_Step ==
    (/\ Composed
     /\ text'.op = "updateDescription"
     /\ text'.arg = text.arg
     /\ text'.body = text.out
     /\ text'.out = newDescription(text'.body, text'.arg))
        => text'.out = text.out

\* C37: when updateDescription(mr, m) has composed and written a description
\* and is called again with the same m, both platform calls succeeding, the
\* description it writes is the one the first call wrote.
C37_UpdateDescriptionIdempotent == [][C37_Step]_vars

(***************************************************************************)
(* SpecTopLevel: the loop of getTopLevelComment, one iteration per step    *)
(***************************************************************************)
MaxSteps == 4

\* inReplyToId links of any shape: a comment may reply to itself or to a
\* later comment
AnyThreads == [1..MaxLen -> 0..MaxLen]

InitTopLevel == InitHelpers

\* `let topLevelComment = comment`; text.arg is topLevelComment, text.n counts
\* the iterations of the loop
TopLevelCall(reviewComments, start) ==
    /\ text.op = "none"
    /\ text' = [op |-> "while", body |-> reviewComments, arg |-> start, out |-> <<>>,
                n |-> 0]
    /\ UNCHANGED <<adapter, reviewCommentsBuffer, reviewCommentsCache, issueCommentsCache,
                   remote, frames, requests, sub, log, calls>>

\* one iteration of `while (topLevelComment.inReplyToId)` that finds the parent
TopLevelLoop ==
    /\ text.op = "while"
    /\ text.n < MaxSteps
    /\ text.arg.inReplyToId # 0
    /\ Find(text.body, text.arg.inReplyToId) # <<>>
    /\ LET parentComment == Find(text.body, text.arg.inReplyToId)
       IN  text' = [text EXCEPT
                       !.arg = ChainComment(parentComment.id, parentComment.inReplyToId),
                       !.n = @ + 1]
    /\ UNCHANGED <<adapter, reviewCommentsBuffer, reviewCommentsCache, issueCommentsCache,
                   remote, frames, requests, sub, log, calls>>

\* the loop condition is false, or `break`: `return topLevelComment`
TopLevelReturn ==
    /\ text.op = "while"
    /\ \/ text.arg.inReplyToId = 0
       \/ Find(text.body, text.arg.inReplyToId) = <<>>
    /\ text' = [text EXCEPT !.op = "getTopLevelComment", !.out = text.arg]
    /\ UNCHANGED <<adapter, reviewCommentsBuffer, reviewCommentsCache, issueCommentsCache,
                   remote, frames, requests, sub, log, calls>>

NextTopLevel ==
    \/ \E thread \in AnyThreads, present \in SUBSET (1..MaxLen), k \in 1..MaxLen :
           TopLevelCall(Fetched(thread, present, 1), ChainComment(k, thread[k]))
    \/ TopLevelLoop
    \/ TopLevelReturn

SpecTopLevel == InitTopLevel /\ [][NextTopLevel]_vars

\* C38: getTopLevelComment makes at most as many iterations as the list has
\* comments, also when the inReplyToId links form a cycle.
C38_TopLevelStepsBounded ==
    text.op \in {"while", "getTopLevelComment"} => text.n <= Len(text.body)

(***************************************************************************)
(* SpecRetag: reviewCommentReply followed by bufferReviewComment and       *)
(* submitReview on one commenter                                           *)
(***************************************************************************)
\* a tool comment whose message quotes the marker: COMMENT_TAG occurs twice
Quoting(id, path, startLine, line) ==
    RawComment(id, path, startLine, line, FormattedMessage(COMMENT_TAG), "")

RetagReviewComments == <<Tagged(1, "a", 0, 2), Plain(2, "a", 0, 2), Quoting(3, "a", 0, 2)>>

\* the comments a reply is made to: the three above and one that is gone
RetagTopLevelComments ==
    {RetagReviewComments[k] : k \in 1..Len(RetagReviewComments)} \cup {Tagged(9, "a", 0, 2)}

InitRetag ==
    /\ adapter \in {"github", "gitlab"}
    /\ remote = [NoRemote EXCEPT
                    !.reviewComments = [mr \in MRs |->
                        IF mr \in WriteMRs THEN RetagReviewComments ELSE <<>>],
                    !.nextId = 20]
    /\ reviewCommentsBuffer = <<>>
    /\ reviewCommentsCache = NoCache
    /\ issueCommentsCache = NoCache
    /\ frames = [c \in Callers |-> IdleFrame]
    /\ requests = 0
    /\ sub = IdleWrite
    /\ log = <<>>
    /\ calls = 0
    /\ text = NoText

NextRetag ==
    \/ \E mrNumber \in WriteMRs, top \in RetagTopLevelComments, message \in WriteMessages :
           reviewCommentReply(mrNumber, top, message)
    \/ \E ok \in BOOLEAN : CreateReply(ok)
    \/ \E ok \in BOOLEAN : CreateReplyError(ok)
    \/ \E ok \in BOOLEAN : UpdateReviewComment(ok)
    \/ \E ok \in BOOLEAN : DiscussionsAll(ok)
    \/ \E ok \in BOOLEAN : AddNote(ok)
    \/ \E ok \in BOOLEAN : CreateReplyNote(ok)
    \/ \E path \in Paths, range \in Ranges, message \in Messages :
           bufferReviewComment(path, range[1], range[2], message)
    \/ \E mrNumber \in SubmitMRs, commitId \in CommitShas, statusMsg \in StatusMsgs :
           submitReview(mrNumber, commitId, statusMsg)
    \/ \E ok \in BOOLEAN : EmptyReview(ok)
    \/ QueryRange
    \/ \E ok \in BOOLEAN : sub.pc = "list" /\ ListResponse(1, ok)
    \/ RangeQueried
    \/ \E ok \in BOOLEAN : DeleteReviewComment(ok)
    \/ \E ok \in BOOLEAN : ListReviews(ok)
    \/ \E ok \in BOOLEAN : DeletePendingReview(ok)
    \/ \E ok \in BOOLEAN : CreateReview(ok)
    \/ \E ok \in BOOLEAN : SubmitPendingReview(ok)
    \/ \E ok \in BOOLEAN : CreateReviewComment(ok)
    \/ \E ok \in BOOLEAN : GetBaseSha(ok)
    \/ \E ok \in BOOLEAN : CreateDiscussion(ok)
    \/ \E ok \in BOOLEAN : CreateFallbackNote(ok)

SpecRetag == InitRetag /\ [][NextRetag]_vars

\* the review comment of mr with this id
CommentById(mr, id) ==
    LET k == CHOOSE k \in 1..Len(remote.reviewComments[mr]) :
                 remote.reviewComments[mr][k].id = id
    IN  remote.reviewComments[mr][k]

\* a GitHub reviewCommentReply on a top-level comment carrying COMMENT_TAG has
\* returned: the reply came first, the error notice only after a failed
\* reply, the rewrite of the top-level body last, and a comment rewritten
\* this way no longer contains COMMENT_TAG
C39_ReplyThenRetag ==
    (/\ adapter = "github"
     /\ WriteReturned("reviewCommentReply")
     /\ Includes(sub.top[1].body, COMMENT_TAG)) =>
        LET n == Len(log)
        IN  /\ n >= 2
            /\ log[1].op = "createReply"
            /\ IF log[1].ok THEN n = 2 ELSE n = 3 /\ log[2].op = "createReplyError"
            /\ log[n].op = "updateReviewComment"
            /\ log[n].body = ReplaceFirst(sub.top[1].body, COMMENT_TAG, COMMENT_REPLY_TAG)
            /\ log[n].ok =>
                   /\ CommentById(sub.mr, sub.top[1].id).body = log[n].body
                   /\ ~Includes(CommentById(sub.mr, sub.top[1].id).body, COMMENT_TAG)

\* no step removes a review comment that carries COMMENT_REPLY_TAG
C39_RetaggedStays ==
    \A mr \in DOMAIN remote.reviewComments :
        \A k \in 1..Len(remote.reviewComments[mr]) :
            Includes(remote.reviewComments[mr][k].body, COMMENT_REPLY_TAG) =>
                Exists(remote'.reviewComments[mr], remote.reviewComments[mr][k].id)

\* C39: GitHub reviewCommentReply on a top-level comment carrying COMMENT_TAG
\* attempts the reply first, an error notice only if that raised, and then
\* rewrites the top-level body with the first COMMENT_TAG replaced by
\* COMMENT_REPLY_TAG; the rewritten comment no longer carries COMMENT_TAG, and
\* no later submitReview that lists the comments afresh deletes it.
C39_RetaggedCommentSurvives == []C39_ReplyThenRetag /\ [][C39_RetaggedStays]_vars

(***************************************************************************)
(* The status message of submitReview (Spec)                               *)
(***************************************************************************)
\* the platform calls of this submitReview call that succeeded and carried
\* the status message as their body
StatusPosts ==
    {k \in 1..Len(log) :
        /\ "ok" \in DOMAIN log[k] /\ "body" \in DOMAIN log[k]
        /\ log[k].ok
        /\ log[k].body = StatusBody(sub.statusMsg)}

\* the batch review was created and submitted (GitHub)
BatchSubmitted ==
    /\ adapter = "github"
    /\ \E k \in IndicesOf("createReview") : log[k].ok /\ log[k].event = ""
    /\ \E k \in IndicesOf("submitReview") : log[k].ok
    /\ IndicesOf("createReviewComment") = {}

\* C40: when submitReview has returned, the status message was posted at most
\* once; with a non-empty buffer it was posted only by the submission of a
\* batch review that was created and submitted (never on the GitHub fallback
\* path, never on GitLab); with an empty buffer the call that carries it is
\* the only call made.
C40_StatusMessagePosting ==
    Returned =>
        /\ Cardinality(StatusPosts) <= 1
        /\ sub.buf # <<>> =>
               /\ StatusPosts # {} =>
                      /\ BatchSubmitted
                      /\ \A k \in StatusPosts : log[k].op = "submitReview"
               /\ BatchSubmitted => StatusPosts # {}
               /\ adapter = "gitlab" => StatusPosts = {}
               /\ IndicesOf("createReviewComment") # {} => StatusPosts = {}
        /\ sub.buf = <<>> =>
               /\ Len(log) = 1
               /\ log[1].op = IF adapter = "github" THEN "createReview" ELSE "createNote"
               /\ log[1].body = StatusBody(sub.statusMsg)
               /\ log[1].ok <=> StatusPosts = {1}

\* a batch review submitted with the status message
C40_Witness ==
    /\ Returned
    /\ sub.buf # <<>>
    /\ BatchSubmitted
    /\ StatusPosts # {}

====
